---- MODULE Spec2Model ----
(***************************************************************************)
(* Best-mix search of the schedule-I calculator: the rule engine, the      *)
(* pricing engine, the depth-first worker (explicit stack machine), the    *)
(* breadth-first worker (frontier by frontier, with the per-depth effects  *)
(* cache of calculateEffectsForMix) and the two coordinators findBestMixDFS *)
(* and findBestMix, which fork one worker per start substance, join them   *)
(* and return the shared best record.                                      *)
(*                                                                         *)
(* Substance indices are 1-based here (the source's index i is i+1), so a  *)
(* stack entry's substanceIndex runs over 1..n+1 where the source's runs   *)
(* over 0..n.  An effect list is modelled by the set of its names: every   *)
(* list the program builds comes out of the keys of a hash map.            *)
(***************************************************************************)
EXTENDS Integers, Sequences, FiniteSets, TLC

\* ------------------------------------------------------------- bounds
MaxSubst == 3   \* longest substance list of the concurrent specification
MaxDepth == 3   \* deepest maxDepth
MaxSize == 6    \* substance count times maxDepth of an input is at most this
MaxList == 2    \* longest effect list handed to getEffectsHash
MaxLookups == 2 \* lookups made in one EffectsCache

\* --------------------------------------------------- program constants
MAX_SUBSTANCES == 16
MAX_DEPTH == 10
MAX_THREADS == 16
DEFAULT_CAP == 9
BASE_WEED == 3500
BASE_METH == 7000
BASE_COCAINE == 15000

\* ------------------------------------------------------------ helpers
Min(a, b) == IF a <= b THEN a ELSE b

\* C++ integer division truncates toward zero
CDiv(a, b) == IF a >= 0 THEN a \div b ELSE -((-a) \div b)

\* std::string::find(pat) != npos, on names held as sequences of characters
Contains(s, pat) ==
  \E i \in 0..(Len(s) - Len(pat)) :
    \A j \in 1..Len(pat) : s[i + j] = pat[j]

\* ================================================================
\* Rule engine (effects.cpp)
\* ================================================================
ConditionsMet(rule, ogEffects) ==
  \A i \in 1..Len(rule.condition) : rule.condition[i] \in ogEffects

ExclusionsMet(rule, ogEffects) ==
  \A i \in 1..Len(rule.ifNotPresent) : rule.ifNotPresent[i] \notin ogEffects

\* a variant that tests the conditions and exclusions of a rule on the working set
ApplyRule_OnWorking(rule, ogEffects, newEffects) ==
  IF ConditionsMet(rule, newEffects) /\ ExclusionsMet(rule, newEffects)
  THEN IF rule.type = "replace" /\ rule.withEffect # ""
       THEN IF rule.target \in newEffects /\ rule.withEffect \notin newEffects
            THEN (newEffects \ {rule.target}) \cup {rule.withEffect}
            ELSE newEffects
       ELSE IF rule.type = "add"
            THEN newEffects \cup {rule.target}
            ELSE newEffects
  ELSE newEffects

ApplyRule(rule, ogEffects, newEffects) ==
  IF ConditionsMet(rule, ogEffects) /\ ExclusionsMet(rule, ogEffects)
  THEN IF rule.type = "replace" /\ rule.withEffect # ""
       THEN IF rule.target \in newEffects /\ rule.withEffect \notin newEffects
            THEN (newEffects \ {rule.target}) \cup {rule.withEffect}
            ELSE newEffects
       ELSE IF rule.type = "add"
            THEN newEffects \cup {rule.target}
            ELSE newEffects
  ELSE newEffects

RECURSIVE ApplyRulesFrom(_, _, _, _)
ApplyRulesFrom(rules, k, ogEffects, newEffects) ==
  IF k > Len(rules) THEN newEffects
  ELSE ApplyRulesFrom(rules, k + 1, ogEffects, ApplyRule(rules[k], ogEffects, newEffects))

DefaultEffectAdded(recipeLength) == recipeLength < DEFAULT_CAP

applySubstanceRules(currentEffects, substance, recipeLength) ==
  LET newEffects == ApplyRulesFrom(substance.rules, 1, currentEffects, currentEffects)
  IN IF DefaultEffectAdded(recipeLength)
     THEN newEffects \cup {substance.defaultEffect}
     ELSE newEffects

\* ================================================================
\* Pricing engine (pricing.cpp)
\* ================================================================
\* a variant in which an effect without an entry counts 1
RECURSIVE TotalMultiplier_UnknownCounts(_, _)
TotalMultiplier_UnknownCounts(effects, effectMultipliers) ==
  IF effects = {} THEN 0
  ELSE LET e == CHOOSE x \in effects : TRUE
       IN (IF e \in DOMAIN effectMultipliers THEN effectMultipliers[e] ELSE 1)
          + TotalMultiplier_UnknownCounts(effects \ {e}, effectMultipliers)

RECURSIVE TotalMultiplier(_, _)
TotalMultiplier(effects, effectMultipliers) ==
  IF effects = {} THEN 0
  ELSE LET e == CHOOSE x \in effects : TRUE
       IN (IF e \in DOMAIN effectMultipliers THEN effectMultipliers[e] ELSE 0)
          + TotalMultiplier(effects \ {e}, effectMultipliers)

\* a variant that looks for "Cocaine" before "Meth"
BasePrice_CocaineFirst(productName) ==
  IF Contains(productName, <<"C", "o", "c", "a", "i", "n", "e">>) THEN BASE_COCAINE
  ELSE IF Contains(productName, <<"M", "e", "t", "h">>) THEN BASE_METH
  ELSE BASE_WEED

BasePrice(productName) ==
  IF Contains(productName, <<"M", "e", "t", "h">>) THEN BASE_METH
  ELSE IF Contains(productName, <<"C", "o", "c", "a", "i", "n", "e">>) THEN BASE_COCAINE
  ELSE BASE_WEED

calculateFinalPrice(productName, currentEffects, effectMultipliers) ==
  LET basePriceInCents == BasePrice(productName)
      totalMultiplier == TotalMultiplier(currentEffects, effectMultipliers)
  IN basePriceInCents + CDiv(basePriceInCents * totalMultiplier, 100)

RECURSIVE calculateFinalCost(_, _)
calculateFinalCost(mix, substances) ==
  IF mix = <<>> THEN 0
  ELSE substances[Head(mix)].cost + calculateFinalCost(Tail(mix), substances)

\* ================================================================
\* Inputs of a run
\* ================================================================
Weed == <<"W", "e", "e", "d">>
BlueMeth == <<"B", "l", "u", "e", " ", "M", "e", "t", "h">>

EffectMultipliers ==
  ("Calming" :> 20) @@ ("Energizing" :> 10) @@ ("Euphoric" :> 18)
    @@ ("Sneaky" :> 24) @@ ("Toxic" :> 0)

Cuke == [name |-> "Cuke", cost |-> 200, defaultEffect |-> "Energizing", rules |-> <<>>]

Banana == [name |-> "Banana", cost |-> 480, defaultEffect |-> "Euphoric", rules |-> <<>>]

MegaBean ==
  [name |-> "MegaBean", cost |-> 700, defaultEffect |-> "Sneaky",
   rules |-> << [type |-> "replace", condition |-> <<"Calming">>, ifNotPresent |-> <<>>,
                 target |-> "Calming", withEffect |-> "Euphoric"],
                [type |-> "replace", condition |-> <<"Energizing">>,
                 ifNotPresent |-> <<"Sneaky">>,
                 target |-> "Energizing", withEffect |-> "Toxic"] >>]

Caviar ==
  [name |-> "Caviar", cost |-> 9000, defaultEffect |-> "Toxic",
   rules |-> << [type |-> "add", condition |-> <<"Toxic">>, ifNotPresent |-> <<"Glowing">>,
                 target |-> "Glowing", withEffect |-> ""] >>]

Truffle == [name |-> "Truffle", cost |-> 12000, defaultEffect |-> "Calming", rules |-> <<>>]

\* costs what its default effect adds to the price of Weed (35 * 24)
Paracetamol ==
  [name |-> "Paracetamol", cost |-> 840, defaultEffect |-> "Sneaky", rules |-> <<>>]

\* A product, its multiplier table and a substance list of which a run takes a prefix
Scenarios ==
  { [product |-> [name |-> Weed, initialEffect |-> "Calming"],
     effectMultipliers |-> EffectMultipliers,
     substances |-> <<Cuke, Banana, MegaBean, Cuke>>],
    [product |-> [name |-> Weed, initialEffect |-> "Calming"],
     effectMultipliers |-> EffectMultipliers,
     substances |-> <<Caviar, Truffle, Caviar, Truffle>>],
    [product |-> [name |-> Weed, initialEffect |-> "Calming"],
     effectMultipliers |-> EffectMultipliers,
     substances |-> <<Cuke, Paracetamol, Banana, Cuke>>],
    [product |-> [name |-> BlueMeth, initialEffect |-> "Energizing"],
     effectMultipliers |-> EffectMultipliers,
     substances |-> <<MegaBean, Caviar, Cuke, Banana>>] }

MakeInput(s, n, d) ==
  [product |-> s.product, effectMultipliers |-> s.effectMultipliers,
   substances |-> SubSeq(s.substances, 1, n), maxDepth |-> d]

\* The inputs whose runs are explored in every interleaving
Sizes ==
  { nd \in (1..Min(MaxSubst, 4)) \X (1..MaxDepth) : nd[1] * nd[2] <= MaxSize }

Inputs == { MakeInput(s, nd[1], nd[2]) : s \in Scenarios, nd \in Sizes }

\* One substance more than the coordinator starts workers for
WideInput ==
  [product |-> [name |-> Weed, initialEffect |-> "Calming"],
   effectMultipliers |-> EffectMultipliers,
   substances |-> [i \in 1..(MAX_THREADS + 1) |-> Cuke],
   maxDepth |-> 1]

\* The same list with mixes of two ingredients
WideTwoInput ==
  [product |-> [name |-> Weed, initialEffect |-> "Calming"],
   effectMultipliers |-> EffectMultipliers,
   substances |-> [i \in 1..(MAX_SUBSTANCES + 1) |-> Cuke],
   maxDepth |-> 2]

\* Two substances and a mix of nine ingredients
DeepInput ==
  [product |-> [name |-> Weed, initialEffect |-> "Calming"],
   effectMultipliers |-> EffectMultipliers,
   substances |-> <<Cuke, Banana>>,
   maxDepth |-> DEFAULT_CAP]

\* One substance without rules that costs more than the product sells for
LossInput ==
  [product |-> [name |-> BlueMeth, initialEffect |-> "Energizing"],
   effectMultipliers |-> EffectMultipliers,
   substances |-> <<Truffle>>,
   maxDepth |-> 1]

\* An empty substance list
EmptyInput ==
  [product |-> [name |-> Weed, initialEffect |-> "Calming"],
   effectMultipliers |-> EffectMultipliers,
   substances |-> <<>>,
   maxDepth |-> 1]

\* One substance and a maxDepth one above the capacity of the DFS path buffer
OverDeepInput ==
  [product |-> [name |-> Weed, initialEffect |-> "Calming"],
   effectMultipliers |-> EffectMultipliers,
   substances |-> <<Cuke>>,
   maxDepth |-> MAX_DEPTH + 1]

Algos == {"dfs", "dfs1", "bfs"}

\* ================================================================
\* State
\* ================================================================
VARIABLES
  input,            \* product, substances, effectMultipliers, maxDepth of the run
  algo,             \* "dfs": findBestMixDFS with threads, "dfs1": its single-threaded
                    \* branch, "bfs": findBestMix
  cpc,              \* the coordinator's position
  ci,               \* the coordinator's loop index (spawn, join, startIdx)
  totalCombinations,
  lastCallback,     \* the progress callback's last invocation
  result,           \* the JsBestMixResult returned
  best,             \* bestMix, bestProfitCents, bestSellPriceCents, bestCostCents
  mutex,            \* holder of g_bestMixMutex / bestMixMutex, 0 when free
  processed,        \* g_totalProcessedCombinations / totalProcessedCombinations
  shouldTerminate,  \* g_shouldTerminate
  lastReport,       \* the last "Best mix so far" line printed
  wpc,              \* each worker's position
  currentState,     \* each DFS worker's DFSState
  stack,            \* each DFS worker's stack of (substanceIndex, depth)
  effectsCache,     \* each DFS worker's effects per depth
  threadBest,       \* each worker's thread-local best
  visited,          \* each worker's evaluated mixes, in order (history)
  frontier,         \* each BFS worker's frontier, position in it, next frontier
  tlCache,          \* each BFS worker's thread_local effectsCache
  single,           \* processedCombinations and batchSize of the single-threaded branch
  call,             \* a call of one of the library functions: its arguments and result
  memo,             \* an EffectsCache: effectsMap, useHashingOptimization, and the
                    \* values std::hash<std::string> has in this build
  runs,             \* two runs of findBestMixDFS in one process: each run's position,
                    \* node count and last in-loop progress callback
  locks             \* the threads of a run that reports its progress to the console:
                    \* each thread's position, and the holders of g_bestMixMutex and
                    \* g_consoleMutex

vars ==
  << input, algo, cpc, ci, totalCombinations, lastCallback, result, best, mutex,
     processed, shouldTerminate, lastReport, wpc, currentState, stack,
     effectsCache, threadBest, visited, frontier, tlCache, single, call, memo, runs,
     locks >>

coordVars == << cpc, ci, totalCombinations, result, single >>
dfsVars == << currentState, stack, effectsCache >>
bfsVars == << frontier, tlCache >>
inputVars == << input, algo, shouldTerminate, call, memo, runs, locks >>

substances == input.substances
maxDepth == input.maxDepth
N == Len(input.substances)
Workers == 1..N

\* -std::numeric_limits<int>::infinity(): int has no infinity, infinity() is int()
INT_INFINITY == 0

NoBest == [mix |-> <<>>, profit |-> -INT_INFINITY, sell |-> 0, cost |-> 0]
NoResult == [mixArray |-> <<>>, profitCents |-> 0, sellPriceCents |-> 0, costCents |-> 0]
NoReport == [mix |-> <<>>, profit |-> 0, sell |-> 0, cost |-> 0]
NoCallback == [depth |-> 0, processed |-> 0, total |-> 0]
NoCall == [fn |-> "none", done |-> TRUE]
NoMemo ==
  [effectsMap |-> <<>>, useHashingOptimization |-> FALSE, stdHash |-> <<>>, pairs |-> {}]
NoRuns == <<>>
NoLocks == <<>>

\* ---------------------------------------------------------------- DFSState
NewDFSState == [indices |-> <<>>, currentCost |-> 0]

addSubstance(st, index) ==
  IF Len(st.indices) < MAX_DEPTH
  THEN [indices |-> Append(st.indices, index),
        currentCost |-> st.currentCost + substances[index].cost]
  ELSE st

\* a variant that removes the last substance and leaves the cost as it is
removeLastSubstance_KeepsCost(st) ==
  IF Len(st.indices) > 0
  THEN [indices |-> SubSeq(st.indices, 1, Len(st.indices) - 1),
        currentCost |-> st.currentCost]
  ELSE st

removeLastSubstance(st) ==
  IF Len(st.indices) > 0
  THEN [indices |-> SubSeq(st.indices, 1, Len(st.indices) - 1),
        currentCost |-> st.currentCost - substances[st.indices[Len(st.indices)]].cost]
  ELSE st

toMixState(st) == st.indices

toSubstanceNames(mix) == [i \in 1..Len(mix) |-> substances[mix[i]].name]

\* ------------------------------------------------------------ the total
RECURSIVE Pow(_, _)
Pow(b, e) == IF e = 0 THEN 1 ELSE b * Pow(b, e - 1)

RECURSIVE SumPow(_, _)
SumPow(b, d) == IF d = 0 THEN 0 ELSE Pow(b, d) + SumPow(b, d - 1)

INT_MAX == 2147483647

ClampTotal(t) == IF t > INT_MAX THEN INT_MAX ELSE t

ExpectedTotal ==
  IF algo = "bfs" THEN ClampTotal(SumPow(N, maxDepth))
  ELSE ClampTotal(SumPow(Min(MAX_SUBSTANCES, N), maxDepth))

NoFrontier == [mixes |-> <<>>, idx |-> 1, next |-> <<>>, depth |-> 0, batchSize |-> 0]

\* ---------------------------------------------------------------- Init
InitWith(inputs) ==
  /\ input \in inputs
  /\ algo \in Algos
  /\ cpc = "start"
  /\ ci = 1
  /\ totalCombinations = 0
  /\ lastCallback = NoCallback
  /\ result = NoResult
  /\ best = NoBest
  /\ mutex = 0
  /\ processed = 0
  /\ shouldTerminate = FALSE
  /\ lastReport = NoReport
  /\ wpc = [w \in Workers |-> "idle"]
  /\ currentState = [w \in Workers |-> NewDFSState]
  /\ stack = [w \in Workers |-> <<>>]
  /\ effectsCache = [w \in Workers |-> [d \in 0..maxDepth |-> {}]]
  /\ threadBest = [w \in Workers |-> NoBest]
  /\ visited = [w \in Workers |-> <<>>]
  /\ frontier = [w \in Workers |-> NoFrontier]
  /\ tlCache = [w \in Workers |-> <<>>]
  /\ single = [processedCombinations |-> 0, batchSize |-> 0]

Init == InitWith(Inputs) /\ call = NoCall /\ memo = NoMemo /\ runs = NoRuns /\ locks = NoLocks

\* ================================================================
\* Node evaluation, shared by the workers
\* ================================================================
\* a variant of the node evaluation that leaves the cost out of the profit
Evaluate_NoCost(effectsList, costCents) ==
  LET sellPriceCents ==
        calculateFinalPrice(input.product.name, effectsList, input.effectMultipliers)
  IN [sell |-> sellPriceCents, cost |-> costCents, profit |-> sellPriceCents]

Evaluate(effectsList, costCents) ==
  LET sellPriceCents ==
        calculateFinalPrice(input.product.name, effectsList, input.effectMultipliers)
  IN [sell |-> sellPriceCents, cost |-> costCents, profit |-> sellPriceCents - costCents]

\* a variant of the comparison that lets an equal profit replace the best
Improves_OrEqual(profitCents, bestProfitCents) == profitCents >= bestProfitCents

\* if (profitCents > threadBestProfitCents)
Improves(profitCents, bestProfitCents) == profitCents > bestProfitCents

BestOf(mix, ev) == [mix |-> mix, profit |-> ev.profit, sell |-> ev.sell, cost |-> ev.cost]

\* ================================================================
\* The DFS stack machine (dfsThreadWorker, and the loop of the
\* single-threaded branch of findBestMixDFS)
\* ================================================================
Top(stk) == stk[Len(stk)]

FirstStack == IF maxDepth > 1 THEN << [substanceIndex |-> 1, depth |-> 2] >> ELSE <<>>

\* the effects vector after the start substance: effectsCache[0], effectsCache[1]
FirstEffects(startIdx) ==
  applySubstanceRules({input.product.initialEffect}, substances[startIdx], 1)

FirstCache(startIdx) ==
  [d \in 0..maxDepth |->
     IF d = 0 THEN {input.product.initialEffect}
     ELSE IF d = 1 THEN FirstEffects(startIdx) ELSE {}]

\* a variant that takes the entry of the start substance as the parent at every depth
NodeEffects_FromStart(cache, current) ==
  applySubstanceRules(cache[1], substances[current.substanceIndex], current.depth)

\* effectsList = applySubstanceRules(effectsCache[current.depth - 1], ...)
NodeEffects(cache, current) ==
  applySubstanceRules(cache[current.depth - 1], substances[current.substanceIndex],
                      current.depth)

\* effectsCache[current.depth] = effectsList
StoreEffects(cache, current, effectsList) == [cache EXCEPT ![current.depth] = effectsList]

\* int reportFrequency = 10000; if (current.depth > 5) reportFrequency = 50000 * (depth - 4)
DfsReportFrequency(depth) == IF depth > 5 THEN 50000 * (depth - 4) ELSE 10000

\* if (progressCallback && count % reportFrequency == 0) progressCallback(depth, count, total)
Progress(last, frequency, depth, count) ==
  IF count % frequency = 0
  THEN [depth |-> depth, processed |-> count, total |-> totalCombinations]
  ELSE last

\* if (current.depth < maxDepth) ... else ...: the stack after a node
AdvanceStack(stk) ==
  LET current == Top(stk)
      bumped == [stk EXCEPT ![Len(stk)].substanceIndex = @ + 1]
  IN IF current.depth < maxDepth
     THEN Append(bumped, [substanceIndex |-> 1, depth |-> current.depth + 1])
     ELSE bumped

\* ... and the path after it
AdvanceState(st, stk) ==
  IF Top(stk).depth < maxDepth THEN st ELSE removeLastSubstance(st)

\* a variant that pops the path with every level, the start substance included
BacktrackState_EveryLevel(st) == removeLastSubstance(st)

\* the backtrack of an exhausted level
BacktrackState(st) == IF Len(st.indices) > 1 THEN removeLastSubstance(st) ELSE st

\* a variant that takes a level for exhausted one substance early
Exhausted_OneEarly(stk) == Top(stk).substanceIndex >= N

Exhausted(stk) == Top(stk).substanceIndex > N

LoopEnds(w) == stack[w] = <<>> \/ shouldTerminate

\* ---------------------------------------------------------------- worker
DfsFirst(w) ==
  /\ wpc[w] = "first"
  /\ LET st == addSubstance(NewDFSState, w)
         ev == Evaluate(FirstEffects(w), st.currentCost)
     IN /\ currentState' = [currentState EXCEPT ![w] = st]
        /\ effectsCache' = [effectsCache EXCEPT ![w] = FirstCache(w)]
        /\ visited' = [visited EXCEPT ![w] = Append(@, toMixState(st))]
        /\ IF Improves(ev.profit, threadBest[w].profit)
           THEN /\ threadBest' = [threadBest EXCEPT ![w] = BestOf(toMixState(st), ev)]
                /\ wpc' = [wpc EXCEPT ![w] = "acquire"]
                /\ UNCHANGED << processed, stack >>
           ELSE /\ processed' = processed + 1
                /\ stack' = [stack EXCEPT ![w] = FirstStack]
                /\ wpc' = [wpc EXCEPT ![w] = "loop"]
                /\ UNCHANGED threadBest
  /\ UNCHANGED << inputVars, coordVars, bfsVars, best, mutex, lastReport, lastCallback >>

DfsExit(w) ==
  /\ wpc[w] = "loop"
  /\ LoopEnds(w)
  /\ wpc' = [wpc EXCEPT ![w] = "done"]
  /\ UNCHANGED << inputVars, coordVars, dfsVars, bfsVars, best, mutex, processed,
                  lastReport, threadBest, visited, lastCallback >>

DfsBacktrack(w) ==
  /\ wpc[w] = "loop"
  /\ ~LoopEnds(w)
  /\ Exhausted(stack[w])
  /\ stack' = [stack EXCEPT ![w] = SubSeq(@, 1, Len(@) - 1)]
  /\ currentState' = [currentState EXCEPT ![w] = BacktrackState(@)]
  /\ UNCHANGED << inputVars, coordVars, bfsVars, best, mutex, processed, lastReport,
                  wpc, effectsCache, threadBest, visited, lastCallback >>

DfsNode(w) ==
  /\ wpc[w] = "loop"
  /\ ~LoopEnds(w)
  /\ ~Exhausted(stack[w])
  /\ LET current == Top(stack[w])
         st == addSubstance(currentState[w], current.substanceIndex)
         effectsList == NodeEffects(effectsCache[w], current)
         ev == Evaluate(effectsList, st.currentCost)
     IN /\ effectsCache' = [effectsCache EXCEPT ![w] = StoreEffects(@, current, effectsList)]
        /\ processed' = processed + 1
        /\ lastCallback' = Progress(lastCallback, DfsReportFrequency(current.depth),
                                 current.depth, processed + 1)
        /\ visited' = [visited EXCEPT ![w] = Append(@, toMixState(st))]
        /\ IF Improves(ev.profit, threadBest[w].profit)
           THEN /\ threadBest' = [threadBest EXCEPT ![w] = BestOf(toMixState(st), ev)]
                /\ currentState' = [currentState EXCEPT ![w] = st]
                /\ wpc' = [wpc EXCEPT ![w] = "acquire"]
                /\ UNCHANGED stack
           ELSE /\ currentState' = [currentState EXCEPT ![w] = AdvanceState(st, stack[w])]
                /\ stack' = [stack EXCEPT ![w] = AdvanceStack(@)]
                /\ UNCHANGED << threadBest, wpc >>
  /\ UNCHANGED << inputVars, coordVars, bfsVars, best, mutex, lastReport >>

\* ================================================================
\* The guarded update of the shared best record
\* (dfsThreadWorker lines 139-163 and 257-282, bfsThreadWorker lines 327-348)
\* ================================================================
\* std::lock_guard<std::mutex> lock(g_bestMixMutex) returns once the mutex is free
\* a variant in which lock_guard never blocks
MutexFree_NoLock == TRUE

\* variants of the comparison under the lock: no comparison at all, and a comparison
\* for inequality instead of strictly greater
ShouldUpdate_Always(w) == TRUE

ShouldUpdate_IfDifferent(w) == threadBest[w].profit # best.profit

MutexFree == mutex = 0

\* if (threadBestProfitCents > globalBestProfitCents)
ShouldUpdate(w) == threadBest[w].profit > best.profit

Acquire(w) ==
  /\ wpc[w] = "acquire"
  /\ MutexFree
  /\ mutex' = w
  /\ wpc' = [wpc EXCEPT ![w] = IF ShouldUpdate(w) THEN "w_mix" ELSE "unlock"]
  /\ UNCHANGED << inputVars, coordVars, dfsVars, bfsVars, best, processed, lastReport,
                  threadBest, visited, lastCallback >>

\* globalBestMix = threadBestMix; globalBestProfitCents = threadBestProfitCents; ...
WriteField(w) ==
  CASE wpc[w] = "w_mix" -> [best EXCEPT !.mix = threadBest[w].mix]
    [] wpc[w] = "w_profit" -> [best EXCEPT !.profit = threadBest[w].profit]
    [] wpc[w] = "w_sell" -> [best EXCEPT !.sell = threadBest[w].sell]
    [] wpc[w] = "w_cost" -> [best EXCEPT !.cost = threadBest[w].cost]

AfterWrite(pc) ==
  CASE pc = "w_mix" -> "w_profit"
    [] pc = "w_profit" -> "w_sell"
    [] pc = "w_sell" -> "w_cost"
    [] pc = "w_cost" -> "report"

WriteBest(w) ==
  /\ wpc[w] \in {"w_mix", "w_profit", "w_sell", "w_cost"}
  /\ best' = WriteField(w)
  /\ wpc' = [wpc EXCEPT ![w] = AfterWrite(@)]
  /\ UNCHANGED << inputVars, coordVars, dfsVars, bfsVars, mutex, processed, lastReport,
                  threadBest, visited, lastCallback >>

\* the "Best mix so far" line: the DFS worker prints its path and its thread-local
\* values, the BFS worker the shared record it has just written
ReportLine(w) ==
  IF algo = "bfs"
  THEN [mix |-> toSubstanceNames(best.mix), profit |-> best.profit,
        sell |-> best.sell, cost |-> best.cost]
  ELSE [mix |-> toSubstanceNames(currentState[w].indices), profit |-> threadBest[w].profit,
        sell |-> threadBest[w].sell, cost |-> threadBest[w].cost]

Report(w) ==
  /\ wpc[w] = "report"
  /\ lastReport' = ReportLine(w)
  /\ wpc' = [wpc EXCEPT ![w] = "unlock"]
  /\ UNCHANGED << inputVars, coordVars, dfsVars, bfsVars, best, mutex, processed,
                  threadBest, visited, lastCallback >>

\* the lock_guard's scope ends; the worker goes on with what follows the update:
\* after the first node the count and the first stack entry, after a loop node the
\* advance, in bfsThreadWorker the return
Unlock(w) ==
  /\ wpc[w] = "unlock"
  /\ mutex' = 0
  /\ IF algo = "bfs"
     THEN /\ wpc' = [wpc EXCEPT ![w] = "done"]
          /\ UNCHANGED << processed, stack, currentState >>
     ELSE /\ wpc' = [wpc EXCEPT ![w] = "loop"]
          /\ IF stack[w] = <<>>
             THEN /\ processed' = processed + 1
                  /\ stack' = [stack EXCEPT ![w] = FirstStack]
                  /\ UNCHANGED currentState
             ELSE /\ currentState' = [currentState EXCEPT ![w] = AdvanceState(@, stack[w])]
                  /\ stack' = [stack EXCEPT ![w] = AdvanceStack(@)]
                  /\ UNCHANGED processed
  /\ UNCHANGED << inputVars, coordVars, bfsVars, best, lastReport, effectsCache,
                  threadBest, visited, lastCallback >>

\* ================================================================
\* calculateEffectsForMix (effects.cpp): the per-thread cache, depth -> effects
\* ================================================================
Put(cache, k, v) == [x \in (DOMAIN cache) \cup {k} |-> IF x = k THEN v ELSE cache[x]]

\* for (i = 0; i < currentDepth; ++i) { effectsList = applySubstanceRules(...);
\*                                     effectsCache[i + 1] = effectsList; }
RECURSIVE FoldMix(_, _, _, _)
FoldMix(mix, i, effectsList, cache) ==
  IF i > Len(mix) THEN [effects |-> effectsList, cache |-> cache]
  ELSE LET e == applySubstanceRules(effectsList, substances[mix[i]], i)
       IN FoldMix(mix, i + 1, e, Put(cache, i, e))

calculateEffectsForMix(cache, mix) ==
  LET currentDepth == Len(mix)
  IN IF currentDepth > 0 /\ (currentDepth - 1) \in DOMAIN cache
     THEN LET e == applySubstanceRules(cache[currentDepth - 1],
                                       substances[mix[currentDepth]], currentDepth)
          IN [effects |-> e, cache |-> Put(cache, currentDepth, e)]
     ELSE IF currentDepth > 0 /\ 0 \in DOMAIN cache
     THEN FoldMix(mix, 1, cache[0], cache)
     ELSE FoldMix(mix, 1, {input.product.initialEffect},
                  Put(cache, 0, {input.product.initialEffect}))

\* ================================================================
\* The BFS worker (bfsThreadWorker, recursiveBFSThreaded)
\* ================================================================
\* for (i = 0; i < substances.size(); ++i) nextDepthMixes.push_back(currentMix + i)
\* a variant of the expansion that leaves the last substance out
Children_WithoutLast(mix) == [i \in 1..(N - 1) |-> Append(mix, i)]

Children(mix) == [i \in 1..N |-> Append(mix, i)]

\* reportInterval = 1000; if (currentDepth > 5) reportInterval * (currentDepth - 4)
BfsReportFrequency(depth) == IF depth > 5 THEN 1000 * (depth - 4) ELSE 1000

\* What follows a frontier member's evaluation: its children, the counters, the
\* periodic progress report; after the last member the depth's progress report and
\* the recursion into the next depth, or the return to bfsThreadWorker.
\* (The empty critical section taken every 5000 members reads and writes nothing.)
BfsPost(w) ==
  LET f == frontier[w]
      next == IF f.depth < maxDepth THEN f.next \o Children(f.mixes[f.idx]) ELSE f.next
      count == processed + 1
      periodic == f.batchSize + 1 >= BfsReportFrequency(f.depth)
      batch == IF periodic THEN 0 ELSE f.batchSize + 1
      last == f.idx = Len(f.mixes)
  IN /\ processed' = count
     /\ lastCallback' =
          IF periodic \/ (last /\ batch > 0)
          THEN [depth |-> f.depth, processed |-> count, total |-> totalCombinations]
          ELSE lastCallback
     /\ IF ~last
        THEN /\ frontier' = [frontier EXCEPT ![w] =
                               [f EXCEPT !.idx = @ + 1, !.next = next, !.batchSize = batch]]
             /\ wpc' = [wpc EXCEPT ![w] = "bfs"]
        ELSE IF next # <<>> /\ f.depth < maxDepth
        THEN /\ frontier' = [frontier EXCEPT ![w] =
                               [mixes |-> next, idx |-> 1, next |-> <<>>,
                                depth |-> f.depth + 1, batchSize |-> 0]]
             /\ wpc' = [wpc EXCEPT ![w] = "bfs"]
        ELSE /\ frontier' = [frontier EXCEPT ![w] =
                               [f EXCEPT !.idx = @ + 1, !.next = next, !.batchSize = batch]]
             /\ wpc' = [wpc EXCEPT ![w] = "acquire"]

BfsEval(w) ==
  /\ wpc[w] = "bfs"
  /\ LET currentMix == frontier[w].mixes[frontier[w].idx]
         r == calculateEffectsForMix(tlCache[w], currentMix)
         ev == Evaluate(r.effects, calculateFinalCost(currentMix, substances))
     IN /\ tlCache' = [tlCache EXCEPT ![w] = r.cache]
        /\ visited' = [visited EXCEPT ![w] = Append(@, currentMix)]
        /\ IF Improves(ev.profit, threadBest[w].profit)
           THEN /\ threadBest' = [threadBest EXCEPT ![w] = BestOf(currentMix, ev)]
                /\ wpc' = [wpc EXCEPT ![w] = "bfs_report"]
                /\ UNCHANGED << frontier, processed, lastCallback >>
           ELSE /\ BfsPost(w)
                /\ UNCHANGED threadBest
  /\ UNCHANGED << inputVars, coordVars, dfsVars, best, mutex, lastReport >>

\* each thread reports its own discovery, holding bestMixMutex while it prints
BfsReport(w) ==
  /\ wpc[w] = "bfs_report"
  /\ MutexFree
  /\ mutex' = w
  /\ lastReport' = [mix |-> toSubstanceNames(threadBest[w].mix),
                    profit |-> threadBest[w].profit,
                    sell |-> threadBest[w].sell, cost |-> threadBest[w].cost]
  /\ wpc' = [wpc EXCEPT ![w] = "bfs_unlock"]
  /\ UNCHANGED << inputVars, coordVars, dfsVars, bfsVars, best, processed, threadBest,
                  visited, lastCallback >>

BfsUnlock(w) ==
  /\ wpc[w] = "bfs_unlock"
  /\ mutex' = 0
  /\ BfsPost(w)
  /\ UNCHANGED << inputVars, coordVars, dfsVars, tlCache, best, lastReport, threadBest,
                  visited >>

\* ================================================================
\* The coordinators (findBestMixDFS, findBestMix)
\* ================================================================
\* for (i = 0; i < substances.size() && i < maxThreads; ++i) / (i < substances.size())
SpawnLimit == IF algo = "dfs" THEN Min(MAX_THREADS, N) ELSE N

\* thread.join() returns once the thread has terminated
\* a variant in which join() returns without waiting for the thread
Joined_NoWait(w) == TRUE

Joined(w) == wpc[w] = "done"

\* the counters are reset, the best record is initialised, the total is computed and
\* the initial progress report is made
CoordStart ==
  /\ cpc = "start"
  /\ processed' = 0
  /\ best' = NoBest
  /\ totalCombinations' = ExpectedTotal
  /\ lastCallback' = [depth |-> 1, processed |-> 0, total |-> ExpectedTotal]
  /\ single' = [processedCombinations |-> 0, batchSize |-> 0]
  /\ ci' = 1
  /\ cpc' = IF algo = "dfs1"
            THEN (IF N > 0 THEN "st_first" ELSE "final")
            ELSE (IF SpawnLimit > 0 THEN "spawn" ELSE "final")
  /\ UNCHANGED << inputVars, result, mutex, lastReport, wpc, dfsVars, bfsVars,
                  threadBest, visited >>

Spawn ==
  /\ cpc = "spawn"
  /\ wpc' = [wpc EXCEPT ![ci] = IF algo = "bfs" THEN "bfs" ELSE "first"]
  /\ frontier' = [frontier EXCEPT ![ci] =
                    IF algo = "bfs"
                    THEN [mixes |-> << <<ci>> >>, idx |-> 1, next |-> <<>>,
                          depth |-> 1, batchSize |-> 0]
                    ELSE @]
  /\ IF ci < SpawnLimit
     THEN ci' = ci + 1 /\ UNCHANGED cpc
     ELSE ci' = 1 /\ cpc' = "join"
  /\ UNCHANGED << inputVars, totalCombinations, result, single, best, mutex, processed,
                  lastReport, dfsVars, tlCache, threadBest, visited, lastCallback >>

Join ==
  /\ cpc = "join"
  /\ Joined(ci)
  /\ IF ci < SpawnLimit
     THEN ci' = ci + 1 /\ UNCHANGED cpc
     ELSE ci' = 1 /\ cpc' = "final"
  /\ UNCHANGED << inputVars, totalCombinations, result, single, best, mutex, processed,
                  lastReport, wpc, dfsVars, bfsVars, threadBest, visited, lastCallback >>

\* a variant of the coordinator that leaves the final progress call out
FinalProgress_Skipped ==
  /\ cpc = "final"
  /\ cpc' = "result"
  /\ UNCHANGED << inputVars, ci, totalCombinations, result, single, best, mutex,
                  processed, lastReport, wpc, dfsVars, bfsVars, threadBest, visited,
                  lastCallback >>

\* progressCallback(maxDepth, totalCombinations, totalCombinations)
FinalProgress ==
  /\ cpc = "final"
  /\ lastCallback' = [depth |-> maxDepth, processed |-> totalCombinations,
                      total |-> totalCombinations]
  /\ cpc' = "result"
  /\ UNCHANGED << inputVars, ci, totalCombinations, result, single, best, mutex,
                  processed, lastReport, wpc, dfsVars, bfsVars, threadBest, visited >>

Return ==
  /\ cpc = "result"
  /\ result' = [mixArray |-> toSubstanceNames(best.mix), profitCents |-> best.profit,
                sellPriceCents |-> best.sell, costCents |-> best.cost]
  /\ cpc' = "done"
  /\ UNCHANGED << inputVars, ci, totalCombinations, single, best, mutex, processed,
                  lastReport, wpc, dfsVars, bfsVars, threadBest, visited, lastCallback >>

\* ---------------------------------------------------------------------
\* The single-threaded branch of findBestMixDFS: the start substances one after
\* another (startIdx is ci), the best record updated directly
\* ---------------------------------------------------------------------
BestReport(b) == [mix |-> toSubstanceNames(b.mix), profit |-> b.profit,
                  sell |-> b.sell, cost |-> b.cost]

StFirst ==
  /\ cpc = "st_first"
  /\ LET st == addSubstance(NewDFSState, ci)
         ev == Evaluate(FirstEffects(ci), st.currentCost)
     IN /\ currentState' = [currentState EXCEPT ![ci] = st]
        /\ effectsCache' = [effectsCache EXCEPT ![ci] = FirstCache(ci)]
        /\ visited' = [visited EXCEPT ![ci] = Append(@, toMixState(st))]
        /\ single' = [processedCombinations |-> single.processedCombinations + 1,
                      batchSize |-> 0]
        /\ IF Improves(ev.profit, best.profit)
           THEN /\ best' = BestOf(toMixState(st), ev)
                /\ lastReport' = BestReport(BestOf(toMixState(st), ev))
           ELSE UNCHANGED << best, lastReport >>
        /\ stack' = [stack EXCEPT ![ci] = FirstStack]
  /\ cpc' = "st_loop"
  /\ UNCHANGED << inputVars, ci, totalCombinations, result, mutex, processed, wpc,
                  bfsVars, threadBest, lastCallback >>

StExit ==
  /\ cpc = "st_loop"
  /\ stack[ci] = <<>>
  /\ lastCallback' =
       IF single.batchSize > 0
       THEN [depth |-> maxDepth, processed |-> single.processedCombinations,
             total |-> totalCombinations]
       ELSE lastCallback
  /\ IF ci < N
     THEN ci' = ci + 1 /\ cpc' = "st_first"
     ELSE ci' = 1 /\ cpc' = "final"
  /\ UNCHANGED << inputVars, totalCombinations, result, single, best, mutex, processed,
                  lastReport, wpc, dfsVars, bfsVars, threadBest, visited >>

StBacktrack ==
  /\ cpc = "st_loop"
  /\ stack[ci] # <<>>
  /\ Exhausted(stack[ci])
  /\ stack' = [stack EXCEPT ![ci] = SubSeq(@, 1, Len(@) - 1)]
  /\ currentState' = [currentState EXCEPT ![ci] = BacktrackState(@)]
  /\ UNCHANGED << inputVars, coordVars, bfsVars, best, mutex, processed, lastReport,
                  wpc, effectsCache, threadBest, visited, lastCallback >>

StNode ==
  /\ cpc = "st_loop"
  /\ stack[ci] # <<>>
  /\ ~Exhausted(stack[ci])
  /\ LET current == Top(stack[ci])
         st == addSubstance(currentState[ci], current.substanceIndex)
         effectsList == NodeEffects(effectsCache[ci], current)
         ev == Evaluate(effectsList, st.currentCost)
         count == single.processedCombinations + 1
         periodic == single.batchSize + 1 >= BfsReportFrequency(current.depth)
     IN /\ effectsCache' = [effectsCache EXCEPT ![ci] = StoreEffects(@, current, effectsList)]
        /\ visited' = [visited EXCEPT ![ci] = Append(@, toMixState(st))]
        /\ single' = [processedCombinations |-> count,
                      batchSize |-> IF periodic THEN 0 ELSE single.batchSize + 1]
        /\ lastCallback' =
             IF periodic
             THEN [depth |-> current.depth, processed |-> count,
                   total |-> totalCombinations]
             ELSE lastCallback
        /\ IF Improves(ev.profit, best.profit)
           THEN /\ best' = BestOf(toMixState(st), ev)
                /\ lastReport' = BestReport(BestOf(toMixState(st), ev))
           ELSE UNCHANGED << best, lastReport >>
        /\ currentState' = [currentState EXCEPT ![ci] = AdvanceState(st, stack[ci])]
        /\ stack' = [stack EXCEPT ![ci] = AdvanceStack(@)]
  /\ UNCHANGED << inputVars, cpc, ci, totalCombinations, result, mutex, processed, wpc,
                  bfsVars, threadBest >>

\* ================================================================
\* Specifications
\* ================================================================
Next ==
  \/ CoordStart
  \/ Spawn
  \/ Join
  \/ FinalProgress
  \/ Return
  \/ StFirst
  \/ StExit
  \/ StBacktrack
  \/ StNode
  \/ \E w \in Workers : DfsFirst(w)
  \/ \E w \in Workers : DfsExit(w)
  \/ \E w \in Workers : DfsBacktrack(w)
  \/ \E w \in Workers : DfsNode(w)
  \/ \E w \in Workers : Acquire(w)
  \/ \E w \in Workers : WriteBest(w)
  \/ \E w \in Workers : Report(w)
  \/ \E w \in Workers : Unlock(w)
  \/ \E w \in Workers : BfsEval(w)
  \/ \E w \in Workers : BfsReport(w)
  \/ \E w \in Workers : BfsUnlock(w)

Spec == Init /\ [][Next]_vars

\* The same program with the workers scheduled one after another in index order
\* (one of the schedules of Spec), on inputs that include a substance list longer
\* than the number of workers findBestMixDFS starts
InOrder(w) == \A v \in 1..(w - 1) : wpc[v] = "done"

InitWide ==
  /\ InitWith(Inputs \cup {WideInput, WideTwoInput, DeepInput, LossInput, EmptyInput,
                         OverDeepInput})
  /\ call = NoCall
  /\ memo = NoMemo
  /\ runs = NoRuns
  /\ locks = NoLocks

NextInOrder ==
  \/ CoordStart
  \/ Spawn
  \/ Join
  \/ FinalProgress
  \/ Return
  \/ StFirst
  \/ StExit
  \/ StBacktrack
  \/ StNode
  \/ \E w \in Workers : InOrder(w) /\ DfsFirst(w)
  \/ \E w \in Workers : InOrder(w) /\ DfsExit(w)
  \/ \E w \in Workers : InOrder(w) /\ DfsBacktrack(w)
  \/ \E w \in Workers : InOrder(w) /\ DfsNode(w)
  \/ \E w \in Workers : InOrder(w) /\ Acquire(w)
  \/ \E w \in Workers : InOrder(w) /\ WriteBest(w)
  \/ \E w \in Workers : InOrder(w) /\ Report(w)
  \/ \E w \in Workers : InOrder(w) /\ Unlock(w)
  \/ \E w \in Workers : InOrder(w) /\ BfsEval(w)
  \/ \E w \in Workers : InOrder(w) /\ BfsReport(w)
  \/ \E w \in Workers : InOrder(w) /\ BfsUnlock(w)

SpecWide == InitWide /\ [][NextInOrder]_vars

\* ================================================================
\* EffectsCache (dfs_algorithm.h)
\* ================================================================
\* A uint64_t is the set of the positions of its 1 bits; ^ is the symmetric difference
Xor(a, b) == (a \ b) \cup (b \ a)

\* static_cast<uint64_t>(substanceIndex) << 32, for an int that is not negative
IndexBits(substanceIndex) ==
  { 32 + b : b \in { c \in 0..30 : (substanceIndex \div Pow(2, c)) % 2 = 1 } }

\* hash = hash ^ std::hash<std::string>{}(effect), for each effect of the list in turn
RECURSIVE XorFold(_, _, _, _)
XorFold(hash, parentEffects, i, stdHash) ==
  IF i > Len(parentEffects) THEN hash
  ELSE XorFold(Xor(hash, stdHash[parentEffects[i]]), parentEffects, i + 1, stdHash)

\* a variant of the fold that rotates the hash by one bit before each combination
RECURSIVE RotateFold(_, _, _, _)
RotateFold(hash, parentEffects, i, stdHash) ==
  IF i > Len(parentEffects) THEN hash
  ELSE RotateFold(Xor({ (b + 1) % 64 : b \in hash }, stdHash[parentEffects[i]]),
                  parentEffects, i + 1, stdHash)

getEffectsHash_Rotating(substanceIndex, parentEffects, stdHash) ==
  RotateFold(IndexBits(substanceIndex), parentEffects, 1, stdHash)

getEffectsHash(substanceIndex, parentEffects, stdHash) ==
  XorFold(IndexBits(substanceIndex), parentEffects, 1, stdHash)

hasCalculatedEffects(m, substanceIndex, parentEffects) ==
  IF ~m.useHashingOptimization THEN FALSE
  ELSE getEffectsHash(substanceIndex, parentEffects, m.stdHash) \in DOMAIN m.effectsMap

cacheCalculatedEffects(m, substanceIndex, parentEffects, resultEffects) ==
  IF ~m.useHashingOptimization THEN m
  ELSE [m EXCEPT !.effectsMap =
          Put(@, getEffectsHash(substanceIndex, parentEffects, m.stdHash), resultEffects)]

\* return effectsMap[hash]: operator[] inserts an empty vector for a hash that is absent
getCachedEffects(m, substanceIndex, parentEffects) ==
  LET hash == getEffectsHash(substanceIndex, parentEffects, m.stdHash)
  IN IF hash \in DOMAIN m.effectsMap
     THEN [effects |-> m.effectsMap[hash], memo |-> m]
     ELSE [effects |-> {}, memo |-> [m EXCEPT !.effectsMap = Put(@, hash, {})]]

\* ================================================================
\* Calls of the library functions: one behaviour is one call of applySubstanceRules,
\* calculateFinalPrice, calculateFinalCost or getEffectsHash, or a sequence of lookups
\* in one EffectsCache
\* ================================================================
ToSet(list) == { list[i] : i \in 1..Len(list) }

SeqsUpTo(S, n) == UNION { [1..k -> S] : k \in 0..n }

IsPermutation(a, b) ==
  /\ Len(a) = Len(b)
  /\ \E f \in [1..Len(a) -> 1..Len(a)] :
        /\ \A i, j \in 1..Len(a) : f[i] = f[j] => i = j
        /\ \A i \in 1..Len(a) : b[i] = a[f[i]]

Cocaine == <<"C", "o", "c", "a", "i", "n", "e">>
MethCocaine == <<"M", "e", "t", "h", " ", "C", "o", "c", "a", "i", "n", "e">>

\* rules that read what earlier rules of the same substance write, a replace without
\* withEffect and a rule of an unknown type
Chili ==
  [name |-> "Chili", cost |-> 700, defaultEffect |-> "Energizing",
   rules |-> << [type |-> "replace", condition |-> <<"Calming">>, ifNotPresent |-> <<>>,
                 target |-> "Calming", withEffect |-> "Euphoric"],
                [type |-> "replace", condition |-> <<"Euphoric">>, ifNotPresent |-> <<>>,
                 target |-> "Euphoric", withEffect |-> "Toxic"],
                [type |-> "add", condition |-> <<>>, ifNotPresent |-> <<"Toxic">>,
                 target |-> "Sneaky", withEffect |-> ""],
                [type |-> "replace", condition |-> <<"Sneaky">>, ifNotPresent |-> <<>>,
                 target |-> "Sneaky", withEffect |-> ""],
                [type |-> "remove", condition |-> <<>>, ifNotPresent |-> <<>>,
                 target |-> "Calming", withEffect |-> "Glowing"] >>]

OddMultipliers == ("Calming" :> 33) @@ ("Energizing" :> 7)

RuleEffects == {"Calming", "Energizing", "Euphoric", "Sneaky", "Toxic", "Glowing"}
RuleSubstances == {Cuke, MegaBean, Caviar, Chili}
RecipeLengths == {1, DEFAULT_CAP - 1, DEFAULT_CAP, DEFAULT_CAP + 1}
ProductNames == {Weed, BlueMeth, Cocaine, MethCocaine}
PriceEffects == {"Calming", "Energizing", "Sneaky"}
CostSubstances == <<Cuke, Banana, MegaBean>>
MemoEffects == {"Calming", "Energizing"}
MemoSubstances == <<MegaBean, Chili>>
MemoIndices == 0..(Len(MemoSubstances) - 1)
HashBitPositions == {0, 32}

\* the values std::hash<std::string> may have for the effect names
StdHashes == [MemoEffects -> SUBSET HashBitPositions]

RulesCalls ==
  { [fn |-> "rules", done |-> FALSE, currentEffects |-> e, substance |-> s,
     recipeLength |-> l, out |-> {}] :
      e \in SUBSET RuleEffects, s \in RuleSubstances, l \in RecipeLengths }

PriceCalls ==
  { [fn |-> "price", done |-> FALSE, productName |-> p, currentEffects |-> e,
     effectMultipliers |-> t, out |-> 0] :
      p \in ProductNames, e \in SUBSET PriceEffects,
      t \in {EffectMultipliers, OddMultipliers} }

CostCalls ==
  { [fn |-> "cost", done |-> FALSE, mix |-> m, out |-> 0] :
      m \in SeqsUpTo(1..Len(CostSubstances), MaxList + 1) }

HashCalls ==
  { [fn |-> "hash", done |-> FALSE, substanceIndex |-> si, list1 |-> ab[1],
     list2 |-> ab[2], out |-> <<{}, {}>>] :
      si \in MemoIndices,
      ab \in { x \in SeqsUpTo(MemoEffects, MaxList) \X SeqsUpTo(MemoEffects, MaxList) :
                 IsPermutation(x[1], x[2]) } }

MemoStart ==
  [fn |-> "memo", done |-> FALSE, n |-> 0, substanceIndex |-> 0, parentEffects |-> <<>>,
   hit |-> FALSE, out |-> {}]

\* the lists of a lookup hold no effect twice, as the lists of a search do
MemoLists == { l \in SeqsUpTo(MemoEffects, MaxList) : Cardinality(ToSet(l)) = Len(l) }

InitCalls ==
  /\ InitWith({LossInput})
  /\ algo = "dfs"
  /\ call \in RulesCalls \cup PriceCalls \cup CostCalls \cup HashCalls \cup {MemoStart}
  /\ memo \in [effectsMap : {<<>>}, useHashingOptimization : BOOLEAN,
               stdHash : StdHashes, pairs : {{}}]
  /\ (call.fn \in {"rules", "price", "cost"}) =>
        (memo.useHashingOptimization /\ memo.stdHash = [e \in MemoEffects |-> {}])
  /\ (call.fn = "hash") => memo.useHashingOptimization
  /\ runs = NoRuns
  /\ locks = NoLocks

searchVars ==
  << input, algo, shouldTerminate, coordVars, dfsVars, bfsVars, best, mutex, processed,
     lastReport, wpc, threadBest, visited, lastCallback, runs,
     locks >>

CallRules ==
  /\ call.fn = "rules" /\ ~call.done
  /\ call' = [call EXCEPT !.done = TRUE,
                          !.out = applySubstanceRules(call.currentEffects, call.substance,
                                                      call.recipeLength)]
  /\ UNCHANGED << searchVars, memo >>

CallPrice ==
  /\ call.fn = "price" /\ ~call.done
  /\ call' = [call EXCEPT !.done = TRUE,
                          !.out = calculateFinalPrice(call.productName, call.currentEffects,
                                                      call.effectMultipliers)]
  /\ UNCHANGED << searchVars, memo >>

CallCost ==
  /\ call.fn = "cost" /\ ~call.done
  /\ call' = [call EXCEPT !.done = TRUE,
                          !.out = calculateFinalCost(call.mix, CostSubstances)]
  /\ UNCHANGED << searchVars, memo >>

CallHash ==
  /\ call.fn = "hash" /\ ~call.done
  /\ call' = [call EXCEPT !.done = TRUE,
                          !.out = << getEffectsHash(call.substanceIndex, call.list1,
                                                    memo.stdHash),
                                     getEffectsHash(call.substanceIndex, call.list2,
                                                    memo.stdHash) >>]
  /\ UNCHANGED << searchVars, memo >>

\* a search step that goes through the memo: hasCalculatedEffects, then
\* getCachedEffects on a hit, otherwise the rules and cacheCalculatedEffects
MemoStep(substanceIndex, parentEffects) ==
  LET hit == hasCalculatedEffects(memo, substanceIndex, parentEffects)
      cached == getCachedEffects(memo, substanceIndex, parentEffects)
      computed == applySubstanceRules(ToSet(parentEffects),
                                      MemoSubstances[substanceIndex + 1], 1)
      stored == cacheCalculatedEffects(memo, substanceIndex, parentEffects, computed)
  IN /\ call' = [call EXCEPT !.done = TRUE, !.n = @ + 1,
                             !.substanceIndex = substanceIndex,
                             !.parentEffects = parentEffects,
                             !.hit = hit,
                             !.out = IF hit THEN cached.effects ELSE computed]
     /\ memo' = IF hit THEN cached.memo
                ELSE [stored EXCEPT !.pairs =
                        IF memo.useHashingOptimization
                        THEN @ \cup {<<substanceIndex, ToSet(parentEffects)>>}
                        ELSE @]

MemoLookup ==
  /\ call.fn = "memo"
  /\ call.n < MaxLookups
  /\ \E substanceIndex \in MemoIndices, parentEffects \in MemoLists :
        MemoStep(substanceIndex, parentEffects)
  /\ UNCHANGED searchVars

NextCalls ==
  \/ CallRules
  \/ CallPrice
  \/ CallCost
  \/ CallHash
  \/ MemoLookup

SpecCalls == InitCalls /\ [][NextCalls]_vars

\* ================================================================
\* The termination flag: g_shouldTerminate is an extern std::atomic<bool> that anything
\* in the process may set while a run is in progress (a progress callback, another
\* thread); the runs themselves only clear it when they start
\* ================================================================
Terminate ==
  /\ cpc \notin {"start", "done"}
  /\ ~shouldTerminate
  /\ shouldTerminate' = TRUE
  /\ UNCHANGED << input, algo, call, memo, runs, locks, coordVars, dfsVars, bfsVars, best, mutex,
                  processed, lastReport, wpc, threadBest, visited, lastCallback >>

NextTerminate ==
  \/ Next
  \/ Terminate

SpecTerminate == Init /\ [][NextTerminate]_vars

\* ================================================================
\* Two runs of findBestMixDFS in one process (dfs_algorithm.cpp): what they share is
\* g_totalProcessedCombinations and g_shouldTerminate; each run is followed by the
\* number of nodes it has evaluated, its workers scheduled one after another
\* ================================================================
RunIds == 1..2

\* a run of more than 10000 nodes, none deeper than 5, and runs of one and two nodes
BigRun == [n |-> 7, d |-> 5]
SmallRuns == { [n |-> 1, d |-> 1], [n |-> 1, d |-> 2] }

NoProgress == [processed |-> 0, total |-> 0, evaluated |-> 0]

IdleRun(size) ==
  [pc |-> "idle", n |-> size.n, d |-> size.d, total |-> 0, evaluated |-> 0,
   callback |-> NoProgress]

\* a worker evaluates its start substance and every mix below it
NodesPerWorker(r) == 1 + SumPow(r.n, r.d - 1)

RunNodes(r) == Min(MAX_THREADS, r.n) * NodesPerWorker(r)

\* the k-th node of the run is a worker's first node, counted without a progress report
IsFirstNode(r, k) == (k - 1) % NodesPerWorker(r) = 0

\* the other run has evaluated this many nodes when a run starts
StartPoints == {0, 1, 1000}

InitTwoRuns ==
  /\ InitWith({LossInput})
  /\ algo = "dfs"
  /\ call = NoCall
  /\ memo = NoMemo
  /\ runs \in { << IdleRun(BigRun), IdleRun(s) >> : s \in SmallRuns }
  /\ locks = NoLocks

twoRunsFrame ==
  << input, algo, call, memo, locks, coordVars, dfsVars, bfsVars, best, mutex, lastReport,
     wpc, threadBest, visited, lastCallback >>

\* g_totalProcessedCombinations = 0; g_shouldTerminate = false; the total
RunStart(r) ==
  /\ runs[r].pc = "idle"
  /\ \A o \in RunIds \ {r} : runs[o].pc = "running" => runs[o].evaluated \in StartPoints
  /\ processed' = 0
  /\ shouldTerminate' = FALSE
  /\ runs' = [runs EXCEPT ![r].pc = "running",
                          ![r].total = ClampTotal(SumPow(Min(MAX_SUBSTANCES, runs[r].n),
                                                         runs[r].d))]
  /\ UNCHANGED twoRunsFrame

\* g_totalProcessedCombinations++, and in the loop
\* if (g_totalProcessedCombinations % reportFrequency == 0) progressCallback(...)
\* (no node of these runs is deeper than 5: the frequency is that of the run's depth)
RunNode(r) ==
  /\ runs[r].pc = "running"
  /\ runs[r].evaluated < RunNodes(runs[r])
  /\ LET k == runs[r].evaluated + 1
         count == processed + 1
     IN /\ processed' = count
        /\ runs' = [runs EXCEPT
                      ![r].evaluated = k,
                      ![r].callback =
                         IF ~IsFirstNode(runs[r], k)
                            /\ count % DfsReportFrequency(runs[r].d) = 0
                         THEN [processed |-> count, total |-> runs[r].total,
                               evaluated |-> k]
                         ELSE @]
  /\ UNCHANGED << twoRunsFrame, shouldTerminate >>

\* the workers are joined and the run returns
RunFinish(r) ==
  /\ runs[r].pc = "running"
  /\ runs[r].evaluated = RunNodes(runs[r])
  /\ runs' = [runs EXCEPT ![r].pc = "done"]
  /\ UNCHANGED << twoRunsFrame, shouldTerminate, processed >>

NextTwoRuns ==
  \/ \E r \in RunIds : RunStart(r)
  \/ \E r \in RunIds : RunNode(r)
  \/ \E r \in RunIds : RunFinish(r)

SpecTwoRuns == InitTwoRuns /\ [][NextTwoRuns]_vars

\* ================================================================
\* The two mutexes of a run that reports its progress to the console
\* (findBestMixDFS called from standalone.cpp with reportProgressToConsole): each
\* worker is followed through the lock operations of its nodes. Whether a node's
\* count is a multiple of the report frequency, whether the node improves the
\* thread's best and whether that beats the shared best are chosen freely.
\* ================================================================
LockWorkers == 2
LockNodes == 2

LockWorkerIds == 1..LockWorkers
MainThread == LockWorkers + 1
LockThreadIds == 1..MainThread

\* a variant in which a lock_guard's destructor leaves the mutex locked
Released_StillHeld(holder, t) == holder

\* the end of a lock_guard's scope
Released(holder, t) == IF holder = t THEN 0 ELSE holder

InitLocks ==
  /\ input = LossInput
  /\ algo = "dfs"
  /\ cpc = "locks"
  /\ ci = 1
  /\ totalCombinations = 0
  /\ lastCallback = NoCallback
  /\ result = NoResult
  /\ best = NoBest
  /\ mutex = 0
  /\ processed = 0
  /\ shouldTerminate = FALSE
  /\ lastReport = NoReport
  /\ wpc = [w \in Workers |-> "idle"]
  /\ currentState = [w \in Workers |-> NewDFSState]
  /\ stack = [w \in Workers |-> <<>>]
  /\ effectsCache = [w \in Workers |-> [d \in 0..maxDepth |-> {}]]
  /\ threadBest = [w \in Workers |-> NoBest]
  /\ visited = [w \in Workers |-> <<>>]
  /\ frontier = [w \in Workers |-> NoFrontier]
  /\ tlCache = [w \in Workers |-> <<>>]
  /\ single = [processedCombinations |-> 0, batchSize |-> 0]
  /\ call = NoCall
  /\ memo = NoMemo
  /\ runs = NoRuns
  /\ locks = [pc |-> [t \in LockThreadIds |-> IF t = MainThread THEN "join" ELSE "first"],
              left |-> [w \in LockWorkerIds |-> LockNodes],
              g_bestMixMutex |-> 0,
              g_consoleMutex |-> 0]

locksFrame ==
  << input, algo, shouldTerminate, call, memo, runs, coordVars, dfsVars, bfsVars, best,
     mutex, processed, lastReport, wpc, threadBest, visited, lastCallback >>

LockRun == locks # NoLocks

\* the first node, and the head of the loop with a node left: the node is evaluated;
\* a node of the loop whose count is a multiple of the report frequency calls
\* progressCallback first
LockNode(w) ==
  /\ LockRun
  /\ \/ /\ locks.pc[w] = "first"
        /\ \E next \in {"lock", "loop"} :
              locks' = [locks EXCEPT !.pc[w] = next]
     \/ /\ locks.pc[w] = "loop"
        /\ locks.left[w] > 0
        /\ \E next \in {"callback", "lock", "loop"} :
              locks' = [locks EXCEPT !.pc[w] = next, !.left[w] = @ - 1]
  /\ UNCHANGED locksFrame

\* while (!stack.empty() ...) ends
LockExit(w) ==
  /\ LockRun
  /\ locks.pc[w] = "loop"
  /\ locks.left[w] = 0
  /\ locks' = [locks EXCEPT !.pc[w] = "done"]
  /\ UNCHANGED locksFrame

\* reportProgressToConsole: std::lock_guard<std::mutex> lock(g_consoleMutex)
CallbackLock(t) ==
  /\ LockRun
  /\ locks.pc[t] = "callback"
  /\ locks.g_consoleMutex = 0
  /\ locks' = [locks EXCEPT !.pc[t] = "printing", !.g_consoleMutex = t]
  /\ UNCHANGED locksFrame

\* reportProgressToConsole returns: a worker goes on to the profit of its node, the
\* main thread returns the result
CallbackUnlock(t) ==
  /\ LockRun
  /\ locks.pc[t] = "printing"
  /\ \E next \in (IF t = MainThread THEN {"done"} ELSE {"lock", "loop"}) :
        locks' = [locks EXCEPT !.pc[t] = next,
                               !.g_consoleMutex = Released(@, t)]
  /\ UNCHANGED locksFrame

\* std::lock_guard<std::mutex> lock(g_bestMixMutex), and the comparison with the
\* shared best
BestMixLock(w) ==
  /\ LockRun
  /\ locks.pc[w] = "lock"
  /\ locks.g_bestMixMutex = 0
  /\ \E next \in {"console", "unlock"} :
        locks' = [locks EXCEPT !.pc[w] = next, !.g_bestMixMutex = w]
  /\ UNCHANGED locksFrame

\* std::lock_guard<std::mutex> consoleLock(g_consoleMutex), inside the scope of lock
ConsoleLock(w) ==
  /\ LockRun
  /\ locks.pc[w] = "console"
  /\ locks.g_consoleMutex = 0
  /\ locks' = [locks EXCEPT !.pc[w] = "report", !.g_consoleMutex = w]
  /\ UNCHANGED locksFrame

\* the "Best mix so far" line is written and the scope of consoleLock ends
ConsoleUnlock(w) ==
  /\ LockRun
  /\ locks.pc[w] = "report"
  /\ locks' = [locks EXCEPT !.pc[w] = "unlock", !.g_consoleMutex = Released(@, w)]
  /\ UNCHANGED locksFrame

\* the scope of lock ends
BestMixUnlock(w) ==
  /\ LockRun
  /\ locks.pc[w] = "unlock"
  /\ locks' = [locks EXCEPT !.pc[w] = "loop", !.g_bestMixMutex = Released(@, w)]
  /\ UNCHANGED locksFrame

\* the main thread has joined every worker and makes the final progress report
LockJoin ==
  /\ LockRun
  /\ locks.pc[MainThread] = "join"
  /\ \A w \in LockWorkerIds : locks.pc[w] = "done"
  /\ locks' = [locks EXCEPT !.pc[MainThread] = "callback"]
  /\ UNCHANGED locksFrame

\* ================================================================
\* Fair scheduling: while some thread can take a step, a thread is scheduled.
\* (Nothing is assumed about which one: a waiting thread may be overtaken.)
\* ================================================================
InitFair == Init \/ InitLocks

NextFair ==
  \/ Next
  \/ \E w \in LockWorkerIds : LockNode(w)
  \/ \E w \in LockWorkerIds : LockExit(w)
  \/ \E t \in LockThreadIds : CallbackLock(t)
  \/ \E t \in LockThreadIds : CallbackUnlock(t)
  \/ \E w \in LockWorkerIds : BestMixLock(w)
  \/ \E w \in LockWorkerIds : ConsoleLock(w)
  \/ \E w \in LockWorkerIds : ConsoleUnlock(w)
  \/ \E w \in LockWorkerIds : BestMixUnlock(w)
  \/ LockJoin

SpecFair == InitFair /\ [][NextFair]_vars /\ WF_vars(NextFair)

\* ================================================================
\* Reference definitions for the properties
\* ================================================================
MaxOver(S) == CHOOSE m \in S : \A x \in S : m >= x

\* every substance sequence of length 1..d over n substances
AllMixes(n, d) == UNION { [1..k -> 1..n] : k \in 1..d }

\* the effect set of a mix: the rules of its substances applied in order
RECURSIVE RefEffectsFrom(_, _, _)
RefEffectsFrom(mix, i, effects) ==
  IF i > Len(mix) THEN effects
  ELSE RefEffectsFrom(mix, i + 1, applySubstanceRules(effects, substances[mix[i]], i))

RefEffects(mix) == RefEffectsFrom(mix, 1, {input.product.initialEffect})

RefSell(mix) ==
  calculateFinalPrice(input.product.name, RefEffects(mix), input.effectMultipliers)

RefCost(mix) == calculateFinalCost(mix, substances)

RefProfit(mix) == RefSell(mix) - RefCost(mix)

RefRecord(mix) ==
  [mix |-> mix, profit |-> RefProfit(mix), sell |-> RefSell(mix), cost |-> RefCost(mix)]

RefMaxProfit == MaxOver({ RefProfit(m) : m \in AllMixes(N, maxDepth) })

\* pre-order of the search tree, children by increasing substance index
Before(a, b) ==
  \/ Len(a) < Len(b) /\ \A i \in 1..Len(a) : a[i] = b[i]
  \/ \E i \in 1..Min(Len(a), Len(b)) :
        /\ a[i] < b[i]
        /\ \A j \in 1..(i - 1) : a[j] = b[j]

\* what a DFS worker holds when it has run alone: the first mix, in pre-order, of the
\* greatest profit among the mixes that begin with its start substance
DfsWorkerResult(w) ==
  LET mine == { m \in AllMixes(N, maxDepth) : m[1] = w }
      top == MaxOver({ RefProfit(m) : m \in mine })
      tops == { m \in mine : RefProfit(m) = top }
  IN IF top > NoBest.profit
     THEN RefRecord(CHOOSE m \in tops : \A x \in tops : x = m \/ Before(m, x))
     ELSE NoBest

\* what a BFS worker holds when it has run alone (recursiveBFSThreaded as a function)
RECURSIVE BfsSim(_, _, _, _, _, _)
BfsSim(mixes, idx, next, depth, cache, tb) ==
  IF idx > Len(mixes)
  THEN IF next # <<>> /\ depth < maxDepth
       THEN BfsSim(next, 1, <<>>, depth + 1, cache, tb)
       ELSE tb
  ELSE LET currentMix == mixes[idx]
           r == calculateEffectsForMix(cache, currentMix)
           ev == Evaluate(r.effects, calculateFinalCost(currentMix, substances))
       IN BfsSim(mixes, idx + 1,
                 IF depth < maxDepth THEN next \o Children(currentMix) ELSE next,
                 depth, r.cache,
                 IF Improves(ev.profit, tb.profit) THEN BestOf(currentMix, ev) ELSE tb)

BfsWorkerResult(w) == BfsSim(<< <<w>> >>, 1, <<>>, 1, <<>>, NoBest)

WorkerResult(w) == IF algo = "bfs" THEN BfsWorkerResult(w) ELSE DfsWorkerResult(w)

\* the shared record when the workers 1..k have run one after another
RECURSIVE MergedUpTo(_)
MergedUpTo(k) ==
  IF k = 0 THEN NoBest
  ELSE LET acc == MergedUpTo(k - 1)
           r == WorkerResult(k)
       IN IF r.profit > acc.profit THEN r ELSE acc

InOrderResult == MergedUpTo(SpawnLimit)

\* the record of the single-threaded branch: every start substance, in order
SingleThreadedResult == MergedUpTo(N)

Started == 1..SpawnLimit
Threaded == algo \in {"dfs", "bfs"}
Returned == cpc = "done"
AllWorkersDone == cpc \in {"join", "final", "result", "done"} /\ \A w \in Started : wpc[w] = "done"

\* The single-threaded branch returns the first mix, in order, of the greatest profit
SingleThreadedAgrees ==
  (Returned /\ algo = "dfs1") =>
     /\ result.profitCents = SingleThreadedResult.profit
     /\ result.sellPriceCents = SingleThreadedResult.sell
     /\ result.costCents = SingleThreadedResult.cost
     /\ result.mixArray = toSubstanceNames(SingleThreadedResult.mix)

\* Run in index order, the workers leave the in-order record
InOrderAgrees ==
  (Returned /\ Threaded) =>
     /\ result.profitCents = InOrderResult.profit
     /\ result.sellPriceCents = InOrderResult.sell
     /\ result.costCents = InOrderResult.cost

\* ================================================================
\* Properties
\* ================================================================
ConsistentRecord(r) == r.profit = r.sell - r.cost /\ r.sell >= 0 /\ r.cost >= 0

\* C1: the result of findBestMixDFS has the greatest profit over all substance
\* sequences of length 1..maxDepth, and its mixPath is a sequence that attains it,
\* also when no sequence has a positive profit.
C1_DfsReturnsMaximum ==
  (Returned /\ algo \in {"dfs", "dfs1"}) =>
     /\ result.profitCents = RefMaxProfit
     /\ \E m \in AllMixes(N, maxDepth) :
           /\ toSubstanceNames(m) = result.mixArray
           /\ RefProfit(m) = RefMaxProfit

\* C2: the profitCents a multi-threaded run returns is the same in every interleaving:
\* it is the profit the workers leave when they run one after another.
C2_ProfitDeterministic ==
  (Returned /\ Threaded) => result.profitCents = InOrderResult.profit

\* a returned run in which a worker other than the first one set the shared record
\* after the first worker had found a positive profit of its own
C2_Witness ==
  /\ Returned /\ Threaded /\ N >= 2
  /\ threadBest[1].profit > 0
  /\ best.mix # <<>> /\ best.mix[1] # 1
  /\ result.profitCents = best.profit

\* C3: the sellPriceCents and the costCents a multi-threaded run returns are the same
\* in every interleaving: they are those the workers leave when they run one after
\* another, also when two workers hold mixes of the same greatest profit.
C3_PriceAndCostDeterministic ==
  (Returned /\ Threaded) =>
     /\ result.sellPriceCents = InOrderResult.sell
     /\ result.costCents = InOrderResult.cost

\* C4: findBestMixDFS returns the same profitCents, sellPriceCents and costCents in
\* its multi-threaded branch as in its single-threaded branch.
C4_ThreadedEqualsSingleThreaded ==
  (Returned /\ algo = "dfs") =>
     /\ result.profitCents = SingleThreadedResult.profit
     /\ result.sellPriceCents = SingleThreadedResult.sell
     /\ result.costCents = SingleThreadedResult.cost

\* C5: findBestMix (BFS) returns the profitCents that findBestMixDFS returns for the
\* same input, which by C2 is the greatest profit the DFS workers can find.
DfsProfit ==
  LET started == { m \in AllMixes(N, maxDepth) : m[1] <= Min(MAX_THREADS, N) }
  IN MaxOver({NoBest.profit} \cup { RefProfit(m) : m \in started })

C5_BfsProfitEqualsDfsProfit ==
  (Returned /\ algo = "bfs") => result.profitCents = DfsProfit

\* C6 (as claimed): in every reachable state the shared best record has
\* profit = sell - cost with sell >= 0 and cost >= 0, and so have every best-so-far
\* report and the returned result.
ReturnedRecord ==
  [profit |-> result.profitCents, sell |-> result.sellPriceCents,
   cost |-> result.costCents]

MidUpdate == \E w \in Workers : wpc[w] \in {"w_sell", "w_cost"}

TimesVisited(m) ==
  LET at == { <<w, i>> \in Workers \X (1..SumPow(N, maxDepth)) :
                i <= Len(visited[w]) /\ visited[w][i] = m }
  IN Cardinality(at)

RECURSIVE NodesOf(_)
NodesOf(k) == IF k = 0 THEN 0 ELSE Len(visited[k]) + NodesOf(k - 1)

C7_Exhaustive ==
  (Returned /\ algo = "dfs") =>
     /\ processed = SumPow(N, maxDepth)
     /\ NodesOf(N) = SumPow(N, maxDepth)
     /\ \A m \in AllMixes(N, maxDepth) : TimesVisited(m) = 1

\* C8: once all workers have finished, the shared best profit is the greatest of the
\* workers' thread-local best profits and the initial value.
C8_BestIsMaxOfThreadBests ==
  (Threaded /\ AllWorkersDone) =>
     best.profit = MaxOver({NoBest.profit} \cup { threadBest[w].profit : w \in Started })

\* all workers done, two of them with different positive thread-local bests
C8_Witness ==
  /\ Threaded /\ AllWorkersDone
  /\ \E v, w \in Started :
        /\ 0 < threadBest[v].profit
        /\ threadBest[v].profit < threadBest[w].profit
        /\ best.profit = threadBest[w].profit

\* C9: every write of the shared best record is a step of the worker that holds the
\* mutex, at most one worker is inside the guarded section, and whenever the mutex is
\* free (so that a worker may read the record) the four fields belong to one mix.
InSection(w) ==
  wpc[w] \in {"w_mix", "w_profit", "w_sell", "w_cost", "report", "unlock", "bfs_unlock"}

Untorn ==
  \/ best = NoBest
  \/ algo = "bfs" /\ \E w \in Workers : best = threadBest[w]
  \/ algo # "bfs" /\ best = RefRecord(best.mix)

C9_BestGuardedByMutex ==
  /\ [](Threaded => /\ Cardinality({ w \in Workers : InSection(w) }) <= 1
                    /\ \A w \in Workers : InSection(w) => mutex = w
                    /\ mutex = 0 => Untorn)
  /\ [][(Threaded /\ best' # best) =>
          \E w \in Workers : mutex = w /\ mutex' = w /\ InSection(w) /\ wpc'[w] # wpc[w]]_vars

\* a worker is writing the record while another one waits for the mutex
C9_Witness ==
  \E v, w \in Workers :
     /\ wpc[v] = "w_sell" /\ mutex = v
     /\ wpc[w] = "acquire"
     /\ best.profit # best.sell - best.cost

\* C10: the coordinator reports, builds and returns its result only after every worker
\* it started has terminated; afterwards no node is evaluated and the shared record
\* does not change.
C10_ResultAfterJoin ==
  /\ [](Threaded /\ cpc \in {"final", "result", "done"} =>
          \A w \in Started : wpc[w] = "done")
  /\ [][(Threaded /\ cpc \in {"result", "done"}) =>
          (visited' = visited /\ best' = best /\ wpc' = wpc)]_vars

\* a returned run of at least two workers that each evaluated nodes
C10_Witness ==
  /\ Returned /\ Threaded /\ N >= 2
  /\ \A w \in Started : wpc[w] = "done" /\ Len(visited[w]) >= 2
  /\ result.profitCents = best.profit /\ best.profit > 0

\* C11: every run ends with a progress invocation in which processed = total: it is
\* made after all workers have finished, and no other progress invocation follows it.
FinalCallback ==
  [depth |-> maxDepth, processed |-> totalCombinations, total |-> totalCombinations]

C11_FinalProgressCall ==
  /\ [](cpc \in {"result", "done"} =>
          /\ lastCallback = FinalCallback
          /\ lastCallback.processed = lastCallback.total
          /\ \A w \in Workers : wpc[w] \in {"idle", "done"})
  /\ [][(cpc' = "result" /\ cpc # "result") =>
          (lastCallback' = FinalCallback /\ \A w \in Workers : wpc[w] \in {"idle", "done"})]_vars
  /\ [][(cpc \in {"result", "done"}) => (lastCallback' = lastCallback)]_vars

\* a returned run whose workers made progress invocations of their own before the
\* final one
C11_Witness ==
  /\ Returned /\ algo = "bfs" /\ N >= 2 /\ maxDepth >= 2
  /\ processed = totalCombinations /\ processed > 0
  /\ lastCallback = FinalCallback

\* C12: the mixPath a multi-threaded run returns is the same in every interleaving:
\* among workers whose mixes tie on the greatest profit the one with the lowest start
\* substance decides, as when the workers run one after another.
C12_MixDeterministic ==
  (Returned /\ Threaded) => result.mixArray = toSubstanceNames(InOrderResult.mix)

\* C13: a worker's thread-local best is the first mix, in the order the worker evaluated
\* them, of the greatest profit it has evaluated; it is replaced only by a mix of a
\* strictly greater profit.
RECURSIVE BfsProfits(_, _, _)
BfsProfits(mixes, i, cache) ==
  IF i > Len(mixes) THEN <<>>
  ELSE LET r == calculateEffectsForMix(cache, mixes[i])
           ev == Evaluate(r.effects, calculateFinalCost(mixes[i], substances))
       IN <<ev.profit>> \o BfsProfits(mixes, i + 1, r.cache)

EvaluatedProfits(w) ==
  IF algo = "bfs" THEN BfsProfits(visited[w], 1, <<>>)
  ELSE [i \in 1..Len(visited[w]) |-> RefProfit(visited[w][i])]

FirstOfGreatest(w) ==
  LET ps == EvaluatedProfits(w)
      tb == threadBest[w]
  IN IF \A i \in 1..Len(ps) : ps[i] <= NoBest.profit
     THEN tb = NoBest
     ELSE \E i \in 1..Len(ps) :
             /\ visited[w][i] = tb.mix
             /\ ps[i] = tb.profit
             /\ \A j \in 1..(i - 1) : ps[j] < ps[i]
             /\ \A j \in 1..Len(ps) : ps[j] <= ps[i]

C13_FirstFoundKept ==
  /\ [](Threaded => \A w \in Workers : FirstOfGreatest(w))
  /\ [][\A w \in Workers :
          (threadBest'[w] # threadBest[w]) => (threadBest'[w].profit > threadBest[w].profit)]_vars

\* a worker has evaluated a second mix of the profit of its thread-local best
C13_Witness ==
  /\ Threaded
  /\ \E w \in Workers :
        LET ps == EvaluatedProfits(w)
        IN \E i, j \in 1..Len(ps) :
              /\ i < j
              /\ ps[i] = ps[j]
              /\ threadBest[w].profit = ps[i]
              /\ threadBest[w].mix = visited[w][i]
              /\ visited[w][j] # visited[w][i]

\* C14: applySubstanceRules returns the set of the reference operator: the rules in list
\* order, a rule enabled iff all its condition names and none of its ifNotPresent names
\* are in the input set, an enabled replace with a withEffect exchanging target for
\* withEffect if target is in the working set and withEffect is not, an enabled add
\* inserting target, nothing else changed (and the default effect added below the cap);
\* the replace rule of Example 2 turns Calming into Euphoric.
RuleEnabled(rule, inputSet) ==
  /\ ToSet(rule.condition) \subseteq inputSet
  /\ ToSet(rule.ifNotPresent) \cap inputSet = {}

RuleStep(rule, inputSet, working) ==
  CASE RuleEnabled(rule, inputSet) /\ rule.type = "replace" /\ rule.withEffect # ""
         /\ rule.target \in working /\ rule.withEffect \notin working
         -> { IF e = rule.target THEN rule.withEffect ELSE e : e \in working }
    [] RuleEnabled(rule, inputSet) /\ rule.type = "add" /\ rule.target \notin working
         -> working \cup {rule.target}
    [] OTHER -> working

RECURSIVE AfterRules(_, _, _)
AfterRules(rules, inputSet, n) ==
  IF n = 0 THEN inputSet
  ELSE RuleStep(rules[n], inputSet, AfterRules(rules, inputSet, n - 1))

ReferenceRules(inputSet, substance, recipeLength) ==
  AfterRules(substance.rules, inputSet, Len(substance.rules))
    \cup (IF recipeLength < DEFAULT_CAP THEN {substance.defaultEffect} ELSE {})

C14_RulesAsReference ==
  (call.fn = "rules" /\ call.done) =>
     /\ call.out = ReferenceRules(call.currentEffects, call.substance, call.recipeLength)
     /\ (call.substance = MegaBean /\ call.currentEffects = {"Calming"}) =>
           ("Euphoric" \in call.out /\ "Calming" \notin call.out)

\* a call in which a rule's condition was written by an earlier rule of the substance
\* and is not in the input set: the rule stays disabled
C14_Witness ==
  /\ call.fn = "rules" /\ call.done
  /\ call.substance = Chili
  /\ call.currentEffects = {"Calming"}
  /\ call.recipeLength = DEFAULT_CAP
  /\ call.out = {"Euphoric", "Sneaky"}

\* C15: in every search the substance appended at 0-indexed position k of a mix has its
\* rules applied to the effects of the mix before it, and its defaultEffect added iff
\* k < 9: the 9th ingredient still contributes its default effect, the 10th does not.
EffectsAtPosition(parentEffects, substance, k) ==
  AfterRules(substance.rules, parentEffects, Len(substance.rules))
    \cup (IF k < DEFAULT_CAP THEN {substance.defaultEffect} ELSE {})

EffectsOfLastNode(w) ==
  LET mix == visited[w][Len(visited[w])]
      position == Len(mix) - 1
      cache == IF algo = "bfs" THEN tlCache[w] ELSE effectsCache[w]
  IN cache[position + 1] =
       EffectsAtPosition(cache[position], substances[mix[position + 1]], position)

C15_DefaultEffectBelowCap ==
  \A w \in Workers : visited[w] # <<>> => EffectsOfLastNode(w)

\* C16: calculateFinalPrice returns base + (base * T) / 100 with integer division, T the
\* sum of the table entries of the effects in the list (0 for an effect without an
\* entry), base 7000 for a name that contains "Meth", otherwise 15000 for one that
\* contains "Cocaine", otherwise 3500; calculateFinalCost returns the sum of the costs
\* of the substances of the mix.
RECURSIVE SumOfEntries(_, _)
SumOfEntries(names, table) ==
  IF names = {} THEN 0
  ELSE LET n == CHOOSE x \in names : TRUE
       IN table[n] + SumOfEntries(names \ {n}, table)

ReferenceBase(productName) ==
  CASE Contains(productName, <<"M", "e", "t", "h">>) -> 7000
    [] ~Contains(productName, <<"M", "e", "t", "h">>)
         /\ Contains(productName, <<"C", "o", "c", "a", "i", "n", "e">>) -> 15000
    [] OTHER -> 3500

ReferencePrice(productName, effects, table) ==
  LET T == SumOfEntries(effects \cap DOMAIN table, table)
      base == ReferenceBase(productName)
  IN base + ((base * T) \div 100)

RECURSIVE SumOfCosts(_, _, _)
SumOfCosts(mix, substanceList, n) ==
  IF n = 0 THEN 0 ELSE SumOfCosts(mix, substanceList, n - 1) + substanceList[mix[n]].cost

C16_PriceAndCost ==
  /\ (call.fn = "price" /\ call.done) =>
        call.out = ReferencePrice(call.productName, call.currentEffects,
                                  call.effectMultipliers)
  /\ (call.fn = "cost" /\ call.done) =>
        call.out = SumOfCosts(call.mix, CostSubstances, Len(call.mix))

\* a name that contains "Meth" and "Cocaine", priced with an effect that has no entry
C16_Witness ==
  /\ call.fn = "price" /\ call.done
  /\ call.productName = MethCocaine
  /\ call.currentEffects = {"Calming", "Sneaky"}
  /\ call.effectMultipliers = OddMultipliers
  /\ call.out = 9310

\* C17: for maxDepth = 1 and a single substance S without rules whose defaultEffect
\* differs from the product's initial effect, a run returns mixPath = [S],
\* sellPriceCents = base + base * (mult[initialEffect] + mult[S.defaultEffect]) / 100,
\* costCents = S.costCents and profitCents = sellPriceCents - costCents.
MultOf(effect) ==
  IF effect \in DOMAIN input.effectMultipliers THEN input.effectMultipliers[effect] ELSE 0

SingleSubstanceCase ==
  /\ maxDepth = 1
  /\ N = 1
  /\ substances[1].rules = <<>>
  /\ substances[1].defaultEffect # input.product.initialEffect

SingleSubstanceSell ==
  LET base == ReferenceBase(input.product.name)
  IN base + ((base * (MultOf(input.product.initialEffect)
                       + MultOf(substances[1].defaultEffect))) \div 100)

C17_SingleSubstanceRun ==
  (Returned /\ SingleSubstanceCase) =>
     /\ result.mixArray = << substances[1].name >>
     /\ result.sellPriceCents = SingleSubstanceSell
     /\ result.costCents = substances[1].cost
     /\ result.profitCents = SingleSubstanceSell - substances[1].cost

\* Example 1 (Weed, Calming, Cuke): 4550, 200 and 4350
C17_Example1 ==
  (Returned /\ SingleSubstanceCase /\ input.product.name = Weed
     /\ input.product.initialEffect = "Calming" /\ substances[1] = Cuke) =>
     /\ result.mixArray = << "Cuke" >>
     /\ result.sellPriceCents = 4550
     /\ result.costCents = 200
     /\ result.profitCents = 4350

\* C18: for every sequence of lookups, a search step that goes through the EffectsCache
\* memo obtains the same effect set as applying the rules directly with the memo
\* disabled: a hit is reported only for a (substance, parent effect set) pair that was
\* cached before, never for a different pair whose hash collides.
DirectEffects ==
  applySubstanceRules(ToSet(call.parentEffects), MemoSubstances[call.substanceIndex + 1], 1)

\* memo.pairs holds the pairs that were cached: a hit adds none, so after a hit the pair
\* of the lookup is in it exactly if it was cached before the lookup
C18_MemoAsDirect ==
  (call.fn = "memo" /\ call.n > 0) =>
     /\ call.out = DirectEffects
     /\ call.hit => << call.substanceIndex, ToSet(call.parentEffects) >> \in memo.pairs

\* no two different pairs of the lookups have the same hash
CollisionFree ==
  \A s1, s2 \in MemoIndices : \A l1, l2 \in MemoLists :
     getEffectsHash(s1, l1, memo.stdHash) = getEffectsHash(s2, l2, memo.stdHash)
        => (s1 = s2 /\ ToSet(l1) = ToSet(l2))

\* with the memo disabled, or with hashes that do not collide, the memo agrees
C18_AgreesWithoutCollision ==
  (call.fn = "memo" /\ call.n > 0 /\ (~memo.useHashingOptimization \/ CollisionFree)) =>
     /\ call.out = DirectEffects
     /\ call.hit => << call.substanceIndex, ToSet(call.parentEffects) >> \in memo.pairs

\* C19: EffectsCache::getEffectsHash is order-independent: for every substance index and
\* every two lists that are permutations of the same effect set, the two hashes are equal.
C19_HashOrderIndependent ==
  (call.fn = "hash" /\ call.done /\ IsPermutation(call.list1, call.list2)) =>
     call.out[1] = call.out[2]

\* two different orders of two effects whose hashes differ and are not zero
C19_Witness ==
  /\ call.fn = "hash" /\ call.done
  /\ Len(call.list1) = 2
  /\ call.list1 # call.list2
  /\ IsPermutation(call.list1, call.list2)
  /\ memo.stdHash[call.list1[1]] # memo.stdHash[call.list1[2]]
  /\ memo.stdHash[call.list1[1]] # {}
  /\ memo.stdHash[call.list1[2]] # {}
  /\ call.substanceIndex > 0
  /\ call.out[1] = call.out[2]

\* C20: a run called with maxDepth < 1 or with an empty substance list fails fast with a
\* precondition violation before any node is evaluated; it never returns a SearchResult
\* (in particular not an empty mix with zero values, nor a mix longer than maxDepth).
PreconditionViolated == N = 0 \/ maxDepth < 1

C20_PreconditionFailsFast ==
  PreconditionViolated => (~Returned /\ result = NoResult)

\* what the run of an empty substance list returns: an empty mix with zero values, after
\* the final progress callback
C20_EmptyListReturnsEmptyMix ==
  (Returned /\ N = 0) =>
     /\ result = [mixArray |-> <<>>, profitCents |-> 0, sellPriceCents |-> 0,
                  costCents |-> 0]
     /\ lastCallback = [depth |-> maxDepth, processed |-> 0, total |-> 0]

\* C21: a DFS run whose maxDepth exceeds the capacity of the path buffer (MAX_DEPTH) is
\* rejected before any worker starts; during a run DFSState::addSubstance never silently
\* drops a substance, so the path, its depth and its cost always describe the node being
\* evaluated.
DfsRun == algo \in {"dfs", "dfs1"}

\* the worker (the start substance, in the single-threaded branch) is at the head of
\* its loop
AtLoopHead(w) ==
  IF algo = "dfs1" THEN cpc = "st_loop" /\ ci = w ELSE algo = "dfs" /\ wpc[w] = "loop"

\* at the head of the loop the path is the parent of the node the stack names next
PathFollowsStack(w) ==
  stack[w] # <<>> => Len(currentState[w].indices) = Top(stack[w]).depth - 1

NothingStarted ==
  /\ cpc = "start"
  /\ \A w \in Workers : wpc[w] = "idle" /\ visited[w] = <<>>

C21_DepthValidated ==
  DfsRun =>
     /\ (maxDepth > MAX_DEPTH => NothingStarted)
     /\ \A w \in Workers :
           /\ AtLoopHead(w) => PathFollowsStack(w)
           /\ currentState[w].currentCost
                = calculateFinalCost(currentState[w].indices, substances)

\* within the capacity the path follows the stack
C21_PathWithinCapacity ==
  (DfsRun /\ maxDepth <= MAX_DEPTH) =>
     \A w \in Workers :
        /\ AtLoopHead(w) => PathFollowsStack(w)
        /\ currentState[w].currentCost
             = calculateFinalCost(currentState[w].indices, substances)

\* above it a substance is dropped: the path at the head of the loop is shorter than
\* the parent of the next node
C21_PathAlwaysFollowsStack ==
  DfsRun => \A w \in Workers : AtLoopHead(w) => PathFollowsStack(w)

\* C22: the total passed to every progress callback of a run equals
\* min(sum over d = 1..maxDepth of n^d, 2^31 - 1), where n is the number of substances
\* in the input list, in both findBestMix and findBestMixDFS and for every n >= 1.
RECURSIVE SearchSpace(_, _)
SearchSpace(n, d) == IF d < 1 THEN 0 ELSE SearchSpace(n, d - 1) + n ^ d

ClaimedTotal == Min(SearchSpace(N, maxDepth), 2147483647)

C22_TotalIsSearchSpace ==
  (N >= 1 /\ lastCallback # NoCallback) => lastCallback.total = ClaimedTotal

\* for a list of at most MAX_SUBSTANCES substances the total is the claimed one
C22_TotalUpToSixteen ==
  (N >= 1 /\ N <= MAX_SUBSTANCES /\ lastCallback # NoCallback) =>
     lastCallback.total = ClaimedTotal

\* C23: in both findBestMix and findBestMixDFS a run never has more than 16 workers
\* alive at the same time, whatever the number of substances, and no two workers of a
\* run are assigned the same start substance.
Alive == { w \in Workers : wpc[w] \notin {"idle", "done"} }

\* the start substance of a worker is the first substance of the mixes it evaluates
StartSubstances(w) == { visited[w][i][1] : i \in 1..Len(visited[w]) }

DistinctStarts ==
  \A v, w \in Workers : v # w => StartSubstances(v) \cap StartSubstances(w) = {}

C23_WorkersCapped ==
  /\ Cardinality(Alive) <= 16
  /\ DistinctStarts

\* findBestMixDFS keeps to the cap, and in both the start substances are distinct
C23_DfsCappedAndDistinct ==
  /\ algo \in {"dfs", "dfs1"} => Cardinality(Alive) <= 16
  /\ DistinctStarts

\* C24: two runs of findBestMixDFS executing concurrently in the same process do not
\* interfere: each run's returned result, and the processed values passed to each run's
\* progress callback, are those the run would produce alone (the start of one run never
\* resets or inflates the other's processed count).
\* A run alone passes as processed the number of nodes it has evaluated.
CountsOwnNodes(r) == runs[r].callback.processed = runs[r].callback.evaluated

C24_RunsDoNotInterfere == \A r \in DOMAIN runs : CountsOwnNodes(r)

\* a run whose companion has not started reports its own count
C24_AloneCountsOwnNodes ==
  \A r \in DOMAIN runs :
     (\A o \in DOMAIN runs : o # r => runs[o].pc = "idle") => CountsOwnNodes(r)

\* C25: if the shared termination flag g_shouldTerminate becomes true while a DFS run is
\* in progress, each worker leaves its loop at its next loop-condition check without
\* evaluating any further node, every worker terminates, and findBestMixDFS returns the
\* best record found up to that point.
\* A step taken at the head of a loop with the flag set evaluates no node.
NoFurtherNode(w) == (shouldTerminate /\ AtLoopHead(w)) => visited'[w] = visited[w]

C25_FlagStopsTheLoops == [][\A w \in Workers : NoFurtherNode(w)]_vars

\* the workers of the multi-threaded branch: with the flag set a worker at the head of
\* its loop does nothing but leave it
C25_FlagStopsTheWorkers ==
  [][\A w \in Workers :
        (algo = "dfs" /\ shouldTerminate /\ wpc[w] = "loop") =>
           (visited'[w] = visited[w] /\ wpc'[w] \in {"loop", "done"})]_vars

\* a multi-threaded run that was told to stop returns with fewer nodes evaluated than
\* the search space holds
C25_StoppedEarly ==
  /\ algo = "dfs" /\ Returned /\ shouldTerminate
  /\ maxDepth > 1
  /\ \A w \in Workers : Len(visited[w]) = 1

\* C26: applySubstanceRules and calculateFinalPrice never fail on an effect name that
\* appears in a rule (condition, ifNotPresent, target, withEffect) or in an effect set
\* but not in the multiplier table: such a name is handled like any other name by the
\* rules and contributes 0 to the total multiplier.
\* "Glowing" has no entry in the tables, "Toxic" has one: exchanging the two names in
\* the arguments of applySubstanceRules exchanges them in its result.
Exchange(name) ==
  IF name = "Glowing" THEN "Toxic" ELSE IF name = "Toxic" THEN "Glowing" ELSE name

ExchangeSet(effects) == { Exchange(e) : e \in effects }

ExchangeList(list) == [i \in 1..Len(list) |-> Exchange(list[i])]

ExchangeRule(rule) ==
  [type |-> rule.type, condition |-> ExchangeList(rule.condition),
   ifNotPresent |-> ExchangeList(rule.ifNotPresent), target |-> Exchange(rule.target),
   withEffect |-> Exchange(rule.withEffect)]

ExchangeSubstance(s) ==
  [name |-> s.name, cost |-> s.cost, defaultEffect |-> Exchange(s.defaultEffect),
   rules |-> [i \in 1..Len(s.rules) |-> ExchangeRule(s.rules[i])]]

C26_UnknownNamesAreOrdinary ==
  /\ (call.fn = "rules" /\ call.done) =>
        /\ call.out \subseteq RuleEffects
        /\ ExchangeSet(call.out)
             = applySubstanceRules(ExchangeSet(call.currentEffects),
                                   ExchangeSubstance(call.substance), call.recipeLength)
  /\ (call.fn = "price" /\ call.done) =>
        call.out = calculateFinalPrice(call.productName,
                                       call.currentEffects \cap DOMAIN call.effectMultipliers,
                                       call.effectMultipliers)

\* a price of two effects of which one has no entry in the table
C26_Witness ==
  /\ call.fn = "price" /\ call.done
  /\ call.productName = Weed
  /\ call.currentEffects = {"Calming", "Sneaky"}
  /\ call.effectMultipliers = OddMultipliers
  /\ call.out = 4655

\* a rule that adds a name without an entry acts
C26_RuleWitness ==
  /\ call.fn = "rules" /\ call.done
  /\ call.substance = Caviar
  /\ "Glowing" \notin call.currentEffects
  /\ "Glowing" \in call.out

\* C27: for every sequence of calls made by a BFS worker while it processes its
\* frontiers depth by depth, calculateEffectsForMix(mix) returns the effect set obtained
\* by folding applySubstanceRules over the substances of mix starting from
\* {initialEffect}: the per-depth cache entry used as the parent is always the effect
\* set of that mix's own prefix, never that of another mix of the previous depth.
\* The effects returned for a mix are the ones the call leaves in the cache at the
\* mix's depth.
LastMix(w) == visited[w][Len(visited[w])]

ReturnedEffects(w) == tlCache[w][Len(LastMix(w))]

C27_BfsEffectsAreTheFold ==
  algo = "bfs" =>
     \A w \in Workers : visited[w] # <<>> => ReturnedEffects(w) = RefEffects(LastMix(w))

\* up to depth 2 the parent entry is that of the start substance, the own prefix
C27_FoldUpToDepthTwo ==
  algo = "bfs" =>
     \A w \in Workers :
        (visited[w] # <<>> /\ Len(LastMix(w)) <= 2) =>
           ReturnedEffects(w) = RefEffects(LastMix(w))

\* C28: in the DFS stack machine, whenever a node at depth d is evaluated, the worker's
\* path-local cache entry effectsCache[d-1] equals the effect set of the current path's
\* prefix of length d-1 (computed by folding applySubstanceRules from the initial
\* effect), also after any number of backtracking steps; the effect set evaluated for
\* the node is therefore that of the whole current path.
Prefix(mix, k) == SubSeq(mix, 1, k)

\* the node evaluated last: its parent's entry and its own
DfsCacheOfLastNode(w) ==
  LET mix == LastMix(w)
      d == Len(mix)
  IN /\ effectsCache[w][d - 1] = RefEffects(Prefix(mix, d - 1))
     /\ effectsCache[w][d] = RefEffects(mix)

C28_DfsCacheIsPathLocal ==
  DfsRun =>
     \A w \in Workers : visited[w] # <<>> => DfsCacheOfLastNode(w)

\* a node of depth 2 evaluated after the worker has backtracked from depth 3
C28_Witness ==
  /\ DfsRun
  /\ \E w \in Workers :
        /\ Len(visited[w]) >= 4
        /\ Len(LastMix(w)) = 2
        /\ Len(visited[w][Len(visited[w]) - 1]) = 3
        /\ effectsCache[w][1] # effectsCache[w][2]
        /\ DfsCacheOfLastNode(w)

\* C29: in the DFS stack machine, whenever a node is evaluated, the running cost
\* accumulator currentState.currentCost equals the sum of the costs of the substances on
\* the current path (the value calculateFinalCost gives for that path); every backtrack
\* removes exactly the last substance and subtracts exactly its cost before the next
\* sibling is added.
CostOfPath(st) == st.currentCost = SumOfCosts(st.indices, substances, Len(st.indices))

\* the record a worker keeps of its best node has the cost of that node's path
BestCostOfPath(b) == b.cost = SumOfCosts(b.mix, substances, Len(b.mix))

\* b is a with its last substance removed and its cost subtracted
Removed(a, b) ==
  /\ Len(a.indices) > 0
  /\ b.indices = SubSeq(a.indices, 1, Len(a.indices) - 1)
  /\ b.currentCost = a.currentCost - substances[a.indices[Len(a.indices)]].cost

\* a step leaves the path, or adds one substance and its cost, or removes the last
\* substance and its cost
PathStep(w) ==
  \/ currentState'[w] = currentState[w]
  \/ Removed(currentState'[w], currentState[w])
  \/ Removed(currentState[w], currentState'[w])

C29_CostFollowsPath ==
  /\ [](DfsRun => \A w \in Workers :
                     /\ CostOfPath(currentState[w])
                     /\ BestCostOfPath(IF algo = "dfs1" THEN best ELSE threadBest[w])
                     /\ AtLoopHead(w) => PathFollowsStack(w))
  /\ [][DfsRun => \A w \in Workers : PathStep(w)]_vars

\* a worker back at depth 2 after a node of depth 3, with a sibling to add next
C29_Witness ==
  /\ DfsRun
  /\ \E w \in Workers :
        /\ AtLoopHead(w)
        /\ visited[w] # <<>>
        /\ Len(LastMix(w)) = 3
        /\ Len(currentState[w].indices) = 2
        /\ stack[w] # <<>>
        /\ Top(stack[w]).substanceIndex > 1
        /\ ~Exhausted(stack[w])
        /\ currentState[w].currentCost > 0
        /\ CostOfPath(currentState[w])

\* C30: each DFS worker evaluates the mixes that begin with its start substance in
\* pre-order with the children of every node taken in increasing substance index, and it
\* evaluates every such mix of length 1..maxDepth exactly once and no mix longer than
\* maxDepth.
MixesOf(w) == { m \in AllMixes(N, maxDepth) : m[1] = w }

Evaluated(w) == { visited[w][i] : i \in 1..Len(visited[w]) }

\* the worker has left its loop (in the single-threaded branch: the loop of start
\* substance w)
LoopLeft(w) ==
  IF algo = "dfs1" THEN cpc \in {"final", "result", "done"} \/ ci > w ELSE wpc[w] = "done"

\* what has been evaluated so far is an initial part of the pre-order, in that order
InPreOrder(w) ==
  /\ \A i, j \in 1..Len(visited[w]) : i < j => Before(visited[w][i], visited[w][j])
  /\ \A m \in MixesOf(w) :
        (visited[w] # <<>> /\ Before(m, LastMix(w))) => m \in Evaluated(w)

C30_WorkerPreOrder ==
  DfsRun =>
     \A w \in Workers :
        /\ Evaluated(w) \subseteq MixesOf(w)
        /\ InPreOrder(w)
        /\ LoopLeft(w) => (Evaluated(w) = MixesOf(w)
                           /\ Len(visited[w]) = Cardinality(MixesOf(w)))

\* a worker that has left its loop after a tree of three levels over two substances
C30_Witness ==
  /\ DfsRun
  /\ N = 2 /\ maxDepth = 3
  /\ LoopLeft(2)
  /\ visited[2] = << <<2>>, <<2, 1>>, <<2, 1, 1>>, <<2, 1, 2>>, <<2, 2>>, <<2, 2, 1>>,
                     <<2, 2, 2>> >>

\* C31: in the BFS, the frontier a worker processes at depth d (1 <= d <= maxDepth)
\* contains exactly the substance sequences of length d that begin with its start
\* substance, each once; every frontier member is evaluated, and expansion stops after
\* depth maxDepth, so no frontier of depth maxDepth+1 is built or evaluated.
SequencesOf(w, d) == { m \in [1..d -> 1..N] : m[1] = w }

Members(f) == { f.mixes[i] : i \in 1..Len(f.mixes) }

FrontierComplete(w) ==
  LET f == frontier[w]
  IN /\ f.depth >= 1 /\ f.depth <= maxDepth
     /\ Members(f) = SequencesOf(w, f.depth)
     /\ Len(f.mixes) = Cardinality(SequencesOf(w, f.depth))
     /\ \A i \in 1..Len(f.next) : Len(f.next[i]) = f.depth + 1 /\ f.depth < maxDepth

C31_BfsFrontiers ==
  algo = "bfs" =>
     \A w \in Workers :
        /\ wpc[w] # "idle" => FrontierComplete(w)
        /\ Evaluated(w) \subseteq MixesOf(w)
        /\ wpc[w] = "done" => (Evaluated(w) = MixesOf(w)
                               /\ Len(visited[w]) = Cardinality(MixesOf(w)))

\* a worker that has gone through its three frontiers over two substances
C31_Witness ==
  /\ algo = "bfs"
  /\ N = 2 /\ maxDepth = 3
  /\ wpc[2] = "done"
  /\ frontier[2].depth = 3
  /\ frontier[2].mixes = << <<2, 1, 1>>, <<2, 1, 2>>, <<2, 2, 1>>, <<2, 2, 2>> >>
  /\ frontier[2].next = <<>>
  /\ Len(visited[2]) = 7

\* C32: in every interleaving of a multi-threaded run (DFS and BFS), a best-so-far
\* report is emitted only when the shared best profit is raised, so each report carries
\* a profit strictly greater than that of every report emitted before it in the run.
\* A worker emits a report in the step that takes it out of a reporting position.
Emits(w) == wpc[w] \in {"report", "bfs_report"} /\ wpc'[w] # wpc[w]

\* the report carries the shared best profit and exceeds the report before it (and with
\* it every earlier one)
RaisesReport ==
  /\ lastReport'.profit = best'.profit
  /\ lastReport # NoReport => lastReport'.profit > lastReport.profit

C32_ReportsIncrease ==
  [][(algo \in {"dfs", "bfs"}) => \A w \in Workers : Emits(w) => RaisesReport]_vars

\* the reports of the DFS workers do
C32_DfsReportsIncrease ==
  [][(algo = "dfs") => \A w \in Workers : Emits(w) => RaisesReport]_vars

\* a DFS run that has emitted a second report
C32_SecondReport ==
  /\ algo = "dfs"
  /\ \E v, w \in Workers :
        /\ v # w
        /\ wpc[w] = "unlock" /\ mutex = w
        /\ lastReport.profit = threadBest[w].profit
        /\ threadBest[v].profit > 0
        /\ threadBest[v].profit < lastReport.profit
        /\ wpc[v] \in {"loop", "done"}

\* C33: the result returned by a run with maxDepth >= 1 and a non-empty substance list
\* is the record of one evaluated mix: mixPath has length between 1 and maxDepth,
\* sellPriceCents is the sale price of mixPath's effect set and costCents is the sum of
\* the costs of mixPath's substances.
AllEvaluated == UNION { Evaluated(w) : w \in Workers }

IsRecordOf(m) ==
  /\ toSubstanceNames(m) = result.mixArray
  /\ Len(m) >= 1 /\ Len(m) <= maxDepth
  /\ result.sellPriceCents = RefSell(m)
  /\ result.costCents = RefCost(m)

C33_ResultIsAnEvaluatedMix ==
  (Returned /\ maxDepth >= 1 /\ N >= 1) => \E m \in AllEvaluated : IsRecordOf(m)

\* the runs whose result is not the record of a mix: the result is empty
C33_ResultEvaluatedOrEmpty ==
  (Returned /\ maxDepth >= 1 /\ N >= 1) =>
     \/ \E m \in AllEvaluated : IsRecordOf(m)
     \/ result = NoResult
     \/ algo = "bfs"

\* C34: at the top of every iteration of a DFS worker's loop, for 1 <= maxDepth <= 10,
\* the stack and the path agree: the stack holds one entry per depth 2..D, where D is
\* the depth of its last entry, the path has D - 1 substances, no entry's substance
\* index is past the end of the substance list, and the path never has fewer than one
\* substance (the start substance is never removed) nor more than maxDepth.
\* (The model counts substances from 1, so the index one past the end is N + 1.)
StackShape(stk) ==
  \A k \in 1..Len(stk) :
     /\ stk[k].depth = k + 1
     /\ stk[k].substanceIndex >= 1
     /\ stk[k].substanceIndex <= N + 1

PathShape(w) ==
  /\ Len(currentState[w].indices) >= 1
  /\ Len(currentState[w].indices) <= maxDepth
  /\ stack[w] # <<>> => Len(currentState[w].indices) = Len(stack[w])
  /\ currentState[w].indices[1] = w

C34_StackAndPathAgree ==
  (DfsRun /\ maxDepth >= 1 /\ maxDepth <= MAX_DEPTH) =>
     \A w \in Workers : AtLoopHead(w) => StackShape(stack[w]) /\ PathShape(w)

\* a worker at the top of the iteration that ends its loop, after the deepest level
\* and every level above it were exhausted
C34_Witness ==
  /\ algo = "dfs" /\ maxDepth = MaxDepth /\ N >= 2
  /\ \E w \in Workers :
        /\ wpc[w] = "loop"
        /\ stack[w] = <<>>
        /\ Len(visited[w]) > maxDepth
        /\ Len(currentState[w].indices) = 1

\* a worker at the top of an iteration with a full stack
C34_FullStack ==
  /\ algo = "dfs" /\ maxDepth = MaxDepth
  /\ \E w \in Workers :
        /\ wpc[w] = "loop"
        /\ Len(stack[w]) = maxDepth - 1
        /\ Exhausted(stack[w])

\* C35: under fair scheduling every run terminates, for every substance count >= 1 and
\* 1 <= maxDepth <= 10: each worker's loop (or its BFS recursion) ends and the result
\* is returned; no deadlock is reachable from the nested acquisition of the best-mix
\* mutex followed by the console mutex together with a progress callback that takes
\* the console mutex.
Finished ==
  IF LockRun THEN \A t \in LockThreadIds : locks.pc[t] = "done" ELSE cpc = "done"

C35_EveryRunTerminates == (N >= 1 /\ maxDepth >= 1 /\ maxDepth <= MAX_DEPTH) => <>Finished

\* the nested acquisition is never the second half of a cycle: a thread that waits for
\* g_bestMixMutex holds no mutex, and the holder of g_consoleMutex waits for nothing
C35_LockOrder ==
  LockRun =>
     \A t \in LockThreadIds :
        /\ locks.pc[t] = "lock" => locks.g_consoleMutex # t /\ locks.g_bestMixMutex # t
        /\ locks.g_consoleMutex = t => locks.pc[t] \in {"printing", "report"}

\* a worker waits for g_consoleMutex inside g_bestMixMutex while another thread's
\* progress callback holds g_consoleMutex
C35_Witness ==
  /\ LockRun
  /\ \E w, v \in LockWorkerIds :
        /\ locks.pc[w] = "console" /\ locks.g_bestMixMutex = w
        /\ locks.pc[v] = "printing" /\ locks.g_consoleMutex = v

\* a search run whose workers have all ended and whose result is returned
C35_SearchReturned ==
  /\ ~LockRun /\ cpc = "done" /\ algo = "dfs" /\ N >= 2 /\ maxDepth = MaxDepth
  /\ \A w \in Workers : wpc[w] = "done"

\* C36: in every progress callback of a run 0 <= processed <= total, in every
\* interleaving and for every substance count (more than 16 included); the processed
\* counter never passes the total.
WithinTotal(cb) == cb.processed >= 0 /\ cb.processed <= cb.total

C36_ProcessedWithinTotal == WithinTotal(lastCallback)

\* the same for the in-loop callbacks of two runs in one process
C36_RunsWithinTotal ==
  \A r \in DOMAIN runs : runs[r].callback # NoProgress => WithinTotal(runs[r].callback)

\* C37: for every DFSState reachable during a run and every substance index i,
\* addSubstance(i) followed by removeLastSubstance() restores the state exactly (the
\* depth, the cost and the indices of the path), also when the path is at capacity.
Restores(st, i) == removeLastSubstance(addSubstance(st, i)) = st

C37_AddThenRemoveRestores ==
  DfsRun => \A w \in Workers : \A i \in 1..N : Restores(currentState[w], i)

\* below the capacity of the path the pair of calls restores the state
C37_RestoresBelowCapacity ==
  DfsRun =>
     \A w \in Workers : \A i \in 1..N :
        Len(currentState[w].indices) < MAX_DEPTH => Restores(currentState[w], i)

\* a path at capacity is reached at the head of a worker's loop, with a node left
C37_AtCapacity ==
  /\ DfsRun
  /\ \E w \in Workers :
        /\ AtLoopHead(w)
        /\ Len(currentState[w].indices) = MAX_DEPTH
        /\ stack[w] # <<>> /\ ~Exhausted(stack[w])

\* C38: EffectsCache::getCachedEffects is a pure read: for every key, cached or not, it
\* leaves effectsMap unchanged, so the answers of hasCalculatedEffects are the same
\* before and after the call.
AfterRead(substanceIndex, parentEffects) ==
  getCachedEffects(memo, substanceIndex, parentEffects).memo

SameAnswers(m1, m2) ==
  \A s \in MemoIndices : \A l \in MemoLists :
     hasCalculatedEffects(m1, s, l) = hasCalculatedEffects(m2, s, l)

C38_GetCachedEffectsIsPure ==
  (call.fn = "memo") =>
     \A s \in MemoIndices : \A l \in MemoLists :
        /\ AfterRead(s, l).effectsMap = memo.effectsMap
        /\ SameAnswers(AfterRead(s, l), memo)

\* the read of a key that hasCalculatedEffects reports as cached changes nothing
C38_PureForCachedKeys ==
  (call.fn = "memo") =>
     \A s \in MemoIndices : \A l \in MemoLists :
        hasCalculatedEffects(memo, s, l) =>
           /\ AfterRead(s, l).effectsMap = memo.effectsMap
           /\ SameAnswers(AfterRead(s, l), memo)

\* a memo that is enabled and holds an entry: some keys are cached and others are not
C38_Witness ==
  /\ call.fn = "memo" /\ call.n > 0
  /\ memo.useHashingOptimization
  /\ \E s \in MemoIndices : \E l \in MemoLists : hasCalculatedEffects(memo, s, l)
  /\ \E s \in MemoIndices : \E l \in MemoLists : ~hasCalculatedEffects(memo, s, l)
====
